---- MODULE Spec2Model ----
(***************************************************************************)
(* castai/logging: the Batch Client (components.BatchClient), the Delivery  *)
(* Client (components.APIClientImpl), the rate limiter and the handler     *)
(* chain as state machines.                                                *)
(*                                                                         *)
(* BatchSpec      the ingress channel, the IngestLogs callers and the Run  *)
(*                worker of one BatchClient; its b.client is any APIClient *)
(*                (a delivery call returns nil or an error).               *)
(* BatchFairSpec  BatchSpec with weak fairness of each caller's select.    *)
(* DeliverySpec   one APIClientImpl.IngestLogs call with its retry loop.   *)
(* RateLimitSpec  one RateLimitHandler: concurrent Enabled calls, the       *)
(*                token buckets, the drop counters and PrintDroppedLogs.   *)
(* ChainSpec      the handler chain logging.New builds (text, custom,      *)
(*                rate limit and export handlers), the Loggers derived     *)
(*                from it, and the consumer of ExportHandler.Records().    *)
(* FlattenSpec    the exporting handler on its own: the handlers derived   *)
(*                from it and the fields of the entries it makes.          *)
(*                                                                         *)
(* Each specification leaves the other components' variables untouched.    *)
(* Time is abstracted: a timer (ticker.C, time.After) may fire at any      *)
(* moment, and a select with several ready cases takes any one of them; a  *)
(* select that found no case ready waits and takes the first to be ready.  *)
(***************************************************************************)
EXTENDS Integers, Sequences, FiniteSets, TLC

\* ---------------------------------------------------------------- bounds
\* Largest BatchSize option a BatchClient is built with.
MaxBatchSize == 2
\* Entries handed to IngestLogs over a whole run.
MaxEntries == 4
\* Longest entries slice of one IngestLogs call.
MaxCallLen == 2
\* Largest MaxRetries option an APIClientImpl is built with.
MaxRetriesOpt == 3
\* Largest Burst option a RateLimitHandler is built with.
MaxBurst == 2
\* RateLimitHandler.Enabled calls over a whole run.
MaxAttempts == 3
\* Clock steps a run lasts.
MaxClock == 2
\* Largest BufferSize option an ExportHandler is built with.
MaxBufferSize == 2
\* Records handled by a handler chain over a whole run.
MaxLogs == 2
\* Loggers derived with With and WithGroup over a whole run.
MaxDerived == 1
\* Handlers derived one after the other from an exporting handler on its own.
MaxScopes == 2

\* Goroutines calling BatchClient.IngestLogs.
Callers == {"c1", "c2"}

VARIABLES
    \* ---- BatchClient
    cfg,        \* BatchClientConfig (BatchSize)
    buffer,     \* b.buffer: the ingress channel's content, oldest first
    entries,    \* run's accumulator slice
    runPc,      \* where the Run worker stands
    runErr,     \* what Run returned
    ctx,        \* the caller's context: "active" or its Err() once done
    delivered,  \* calls b.client.IngestLogs received, in order
    calls,      \* per caller: the IngestLogs call in progress
    submitted,  \* number of entries handed to IngestLogs so far
    failures,   \* number of delivery calls that returned an error (logged by flush)
    enqueued,   \* history: entries sent on b.buffer, in send order
    atShutdown, \* history: the accumulator and the channel's non-empty entries
                \* at the moment run received ctx.Done()
    \* ---- APIClientImpl
    apiOpts,    \* the Config NewAPIClient was given (MaxRetries, MaxRetryBackoffWait)
    apiCfg,     \* a.cfg: the Config NewAPIClient stored
    apiPc,      \* where APIClientImpl.IngestLogs stands
    attempt,    \* the loop variable of the retry loop
    requests,   \* responses of the doIngestRequest calls made, in order
    waits,      \* backoff waits (ms) slept, in order
    lastErr,    \* lastErr of the retry loop
    apiErr,     \* what APIClientImpl.IngestLogs returned
    apiCtx,     \* the context of the IngestLogs call
    \* ---- RateLimitHandler
    rlCfg,      \* RateLimiterHandlerConfig (Burst; Limit is one token per T)
    nextHandler, \* h.next: "nil", or "set" once Register gave it a handler
    rt,         \* h.rt: per level, the bucket's tokens in 1/RefillSteps of a token
    droppedLogsCounters, \* h.droppedLogsCounters: per level, the atomic counter
    enabled,    \* per goroutine: the Enabled call in progress
    rep,        \* PrintDroppedLogs: where it stands, the levels its range has
                \* still to visit, the level in hand and the count it loaded
    repCtx,     \* the context of PrintDroppedLogs
    now,        \* the clock, in steps of T/RefillSteps
    attempts,   \* history: the Allow() calls made: level, time, outcome
    reported,   \* history: per level, the sum of the counts passed to printFunc
    \* ---- handler chain
    heap,       \* the objects handlers point to, by address: the handlers, the
                \* limiter and counter maps, the export channels, the writer
    loggers,    \* the Loggers the program holds: the address of each one's handler
    handlers,   \* the handlers New was given, in listed order
    trace       \* history: the calls made on the loggers and the receives from
                \* Records(), in order

batchVars == <<cfg, buffer, entries, runPc, runErr, ctx, delivered,
               calls, submitted, failures, enqueued, atShutdown>>
apiVars == <<apiOpts, apiCfg, apiPc, attempt, requests, waits, lastErr, apiErr, apiCtx>>
rlVars == <<rlCfg, nextHandler, rt, droppedLogsCounters, enabled, rep, repCtx, now,
            attempts, reported>>
chainVars == <<heap, loggers, handlers, trace>>
vars == <<batchVars, apiVars, rlVars, chainVars>>

\* ---------------------------------------------------------------- helpers
RECURSIVE Flatten(_)
Flatten(ss) == IF ss = <<>> THEN <<>> ELSE Head(ss) \o Flatten(Tail(ss))

IsPrefix(s, t) == Len(s) <= Len(t) /\ SubSeq(t, 1, Len(s)) = s

Last(s) == s[Len(s)]

\* ============================================================ BatchClient
Nil == "nil"
ErrCanceled == "context canceled"
ErrTimeout == "timeout: buffer is full, cannot enqueue log entry"

\* An Entry: its Message, and `seq`, its position in the channel's send order
\* (history: Go entries carry no identity; the tag tells equal entries apart).
Entry(message, seq) == [Message |-> message, seq |-> seq]

\* Entries with a message (len(entry.Message) > 0), order kept.
NonEmpty(es) == SelectSeq(es, LAMBDA e : e.Message # "")

\* make(chan Entry, cfg.BatchSize*2)
BufferCap == cfg.BatchSize * 2

\* A caller's IngestLogs call: where it stands, the messages of the entries the
\* range loop has still to send, the error it returned, and `sent`, how many
\* entries of its slice the loop has sent (history).
IdleCall == [pc |-> "idle", entries |-> <<>>, err |-> Nil, sent |-> 0]

\* The call has returned err; its locals are gone.
Returned(err) == [IdleCall EXCEPT !.pc = "returned", !.err = err]

\* The call has returned err from inside its loop; `sent` stays as history: the
\* entries of its slice sent before the one the select stood at.
Failed(call, err) == [Returned(err) EXCEPT !.sent = call.sent]

\* NewBatchClient, followed by `go client.Run(ctx)` reaching its select.
BatchInit ==
    /\ cfg \in [BatchSize : 1..MaxBatchSize]
    /\ buffer = <<>>
    /\ entries = <<>>
    /\ runPc = "select"
    /\ runErr = Nil
    /\ ctx = "active"
    /\ delivered = <<>>
    /\ calls = [c \in Callers |-> IdleCall]
    /\ submitted = 0
    /\ failures = 0
    /\ enqueued = <<>>
    /\ atShutdown = [acc |-> <<>>, chan |-> <<>>]

\* No APIClientImpl takes part in BatchSpec: b.client is any APIClient.
ApiIdle ==
    /\ apiOpts = [MaxRetries |-> 0, MaxRetryBackoffWait |-> 0]
    /\ apiCfg = apiOpts
    /\ apiPc = "idle"
    /\ attempt = 0
    /\ requests = <<>>
    /\ waits = <<>>
    /\ lastErr = [kind |-> "nil"]
    /\ apiErr = [kind |-> "nil"]
    /\ apiCtx = "active"

\* The levels NewRateLimitHandler makes a bucket and a counter for.
Levels == {"DEBUG", "INFO", "WARN", "ERROR"}

\* cfg.Limit is rate.Every(T): one token per refill interval T, which lasts
\* RefillSteps steps of the clock.
RefillSteps == 2

\* Goroutines calling RateLimitHandler.Enabled, and the levels they log at.
Emitters == {"g1", "g2"}
EmitLevels == {"INFO", "ERROR"}

\* An emitter's Enabled call: where it stands, its level, and what it returned.
NoEnabledCall == [pc |-> "idle", level |-> "INFO", ret |-> FALSE]

\* PrintDroppedLogs: at its select, no range under way.
ReporterAtSelect == [pc |-> "select", pending |-> {}, level |-> "INFO", count |-> 0]

\* No RateLimitHandler takes part in BatchSpec and DeliverySpec.
RlIdle ==
    /\ rlCfg = [Burst |-> 1]
    /\ nextHandler = "nil"
    /\ rt = [l \in Levels |-> RefillSteps]
    /\ droppedLogsCounters = [l \in Levels |-> 0]
    /\ enabled = [g \in Emitters |-> NoEnabledCall]
    /\ rep = ReporterAtSelect
    /\ repCtx = "active"
    /\ now = 0
    /\ attempts = <<>>
    /\ reported = [l \in Levels |-> 0]

\* No handler chain takes part in BatchSpec, DeliverySpec and RateLimitSpec.
ChainIdle ==
    /\ heap = <<>>
    /\ loggers = <<>>
    /\ handlers = <<>>
    /\ trace = <<>>

\* cancel() of the caller's context.
Cancel ==
    /\ ctx = "active"
    /\ ctx' = ErrCanceled
    /\ UNCHANGED <<cfg, buffer, entries, runPc, runErr, delivered, calls,
                   submitted, enqueued, atShutdown, failures, apiVars, rlVars, chainVars>>

\* ---- IngestLogs (one goroutine per caller)

\* IngestLogs is called with a slice of 1..MaxCallLen entries; time.After is armed
\* and the range loop stands at its select with the first entry.
IngestLogsCall(c) ==
    /\ calls[c].pc \in {"idle", "returned"}
    /\ \E n \in 1..MaxCallLen :
         /\ submitted + n <= MaxEntries
         /\ \E msgs \in [1..n -> {"", "m"}] :
              calls' = [calls EXCEPT ![c] =
                          [pc |-> "select", entries |-> msgs, err |-> Nil, sent |-> 0]]
         /\ submitted' = submitted + n
    /\ UNCHANGED <<cfg, buffer, entries, runPc, runErr, ctx, delivered,
                   enqueued, atShutdown, failures, apiVars, rlVars, chainVars>>

\* case b.buffer <- entry: the channel has room; the loop goes on to the next
\* entry or ends, and the call returns nil.
IngestEnqueue(c) ==
    /\ calls[c].pc = "select"
    /\ Len(buffer) < BufferCap
    /\ LET e == Entry(Head(calls[c].entries), Len(enqueued) + 1)
           rest == Tail(calls[c].entries)
       IN /\ buffer' = Append(buffer, e)
          /\ enqueued' = Append(enqueued, e)
          /\ calls' = [calls EXCEPT ![c] =
                          IF rest = <<>> THEN Returned(Nil)
                          ELSE [@ EXCEPT !.entries = rest, !.sent = @ + 1]]
    /\ UNCHANGED <<cfg, entries, runPc, runErr, ctx, delivered, submitted,
                   atShutdown, failures, apiVars, rlVars, chainVars>>

\* The select finds no case ready (the channel is full, the context is not
\* done, the timer has not fired): the goroutine waits, and the first case to
\* become ready is the one it takes.
IngestPark(c) ==
    /\ calls[c].pc = "select"
    /\ Len(buffer) = BufferCap
    /\ ctx = "active"
    /\ calls' = [calls EXCEPT ![c].pc = "parked"]
    /\ UNCHANGED <<cfg, buffer, entries, runPc, runErr, ctx, delivered,
                   submitted, enqueued, atShutdown, failures, apiVars, rlVars, chainVars>>

\* case <-ctx.Done(): return ctx.Err(): taken by a select that finds the context
\* done, or by a waiting one that the context's cancellation wakes.
IngestCtxDone(c) ==
    /\ calls[c].pc \in {"select", "parked"}
    /\ ctx # "active"
    /\ calls' = [calls EXCEPT ![c] = Failed(calls[c], ctx)]
    /\ UNCHANGED <<cfg, buffer, entries, runPc, runErr, ctx, delivered,
                   submitted, enqueued, atShutdown, failures, apiVars, rlVars, chainVars>>

\* Faulty variant: the select has no timeout case
IngestNoTimeout(c) ==
    /\ FALSE
    /\ UNCHANGED vars

\* Faulty variant: a waiting select may still take the timeout after the
\* context's cancellation has woken it
IngestTimeoutAfterCancel(c) ==
    /\ calls[c].pc \in {"select", "parked"}
    /\ calls' = [calls EXCEPT ![c] = Failed(calls[c], ErrTimeout)]
    /\ UNCHANGED <<cfg, buffer, entries, runPc, runErr, ctx, delivered,
                   submitted, enqueued, atShutdown, failures, apiVars, rlVars, chainVars>>

\* Faulty variant: a call that times out takes back the entries it had sent
\* that are still in the channel
IngestTimeoutRollsBack(c) ==
    /\ \/ calls[c].pc = "select"
       \/ calls[c].pc = "parked" /\ ctx = "active"
    /\ calls' = [calls EXCEPT ![c] = Failed(calls[c], ErrTimeout)]
    /\ buffer' = IF calls[c].sent > 0 /\ buffer # <<>>
                 THEN SubSeq(buffer, 1, Len(buffer) - 1)
                 ELSE buffer
    /\ UNCHANGED <<cfg, entries, runPc, runErr, ctx, delivered,
                   submitted, enqueued, atShutdown, failures, apiVars, rlVars, chainVars>>

\* case <-enqTimeout: return the timeout error. The EnqueueTimeout of the call
\* (time.After is armed once per call) has elapsed when the select is entered, or
\* elapses while it waits with nothing else having woken it. (The call ends here,
\* so the timer needs no state of its own.)
IngestTimeout(c) ==
    /\ \/ calls[c].pc = "select"
       \/ calls[c].pc = "parked" /\ ctx = "active"
    /\ calls' = [calls EXCEPT ![c] = Failed(calls[c], ErrTimeout)]
    /\ UNCHANGED <<cfg, buffer, entries, runPc, runErr, ctx, delivered,
                   submitted, enqueued, atShutdown, failures, apiVars, rlVars, chainVars>>

\* ---- run (the single worker)

\* Faulty variant: the final flush is made under the caller's context too
DeliveryUnderCallerCtx(trigger, e) ==
    [batch |-> e,
     trigger |-> trigger,
     ctx |-> "ctx",
     cancelled |-> (ctx # "active")]

\* A call b.client.IngestLogs(ctx, e) as the Delivery Client receives it: the
\* batch, which flush of run made it ("size", "tick" or "final"), the context it
\* was given (the caller's ctx, or shutdownCtx for the final flush) and whether
\* that context was already done.
Delivery(trigger, e) ==
    [batch |-> e,
     trigger |-> trigger,
     ctx |-> IF trigger = "final" THEN "shutdownCtx" ELSE "ctx",
     cancelled |-> (trigger # "final" /\ ctx # "active")]

\* Faulty variant: flush makes the call for an empty e too
flushEmptyToo(trigger, e, inCall, after) ==
    /\ delivered' = Append(delivered, Delivery(trigger, e))
    /\ runPc' = inCall

\* flush(ctx, e): nothing for an empty e, else the call is made and the worker is
\* inside it (at pc `inCall`) until it returns; `after` is where run goes on.
flush(trigger, e, inCall, after) ==
    IF Len(e) = 0
    THEN /\ delivered' = delivered
         /\ runPc' = after
    ELSE /\ delivered' = Append(delivered, Delivery(trigger, e))
         /\ runPc' = inCall

\* Faulty variant: the entry is put in front of the accumulator
prependEntry(es, e) == <<e>> \o es

\* entries = append(entries, entry)
appendEntry(es, e) == Append(es, e)

\* len(entries) >= b.cfg.BatchSize
batchFull(es) == Len(es) >= cfg.BatchSize

\* The callers whose send waits on the full channel.
WaitingSenders ==
    IF ctx = "active" THEN {c \in Callers : calls[c].pc = "parked"} ELSE {}

\* A receive from b.buffer: the oldest entry leaves the channel; if a send waits,
\* its entry enters the channel in the same step and its caller goes on (to the
\* next entry of its range loop, or to return nil).
receive ==
    IF WaitingSenders = {}
    THEN /\ buffer' = Tail(buffer)
         /\ UNCHANGED <<enqueued, calls>>
    ELSE \E c \in WaitingSenders :
           LET e == Entry(Head(calls[c].entries), Len(enqueued) + 1)
               rest == Tail(calls[c].entries)
           IN /\ buffer' = Append(Tail(buffer), e)
              /\ enqueued' = Append(enqueued, e)
              /\ calls' = [calls EXCEPT ![c] =
                              IF rest = <<>> THEN Returned(Nil)
                              ELSE [pc |-> "select", entries |-> rest, err |-> Nil,
                                    sent |-> calls[c].sent + 1]]

\* Faulty variant: an entry without a message is accumulated like any other
RunReceiveCountsEmpty ==
    /\ runPc = "select"
    /\ buffer # <<>>
    /\ receive
    /\ entries' = appendEntry(entries, Head(buffer))
    /\ IF batchFull(entries')
       THEN flush("size", entries', "flushSize", "select")
       ELSE UNCHANGED <<delivered, runPc>>
    /\ UNCHANGED <<cfg, runErr, ctx, submitted, atShutdown, failures, apiVars,
                   rlVars, chainVars>>

\* case entry := <-b.buffer
RunReceive ==
    /\ runPc = "select"
    /\ buffer # <<>>
    /\ receive
    /\ LET entry == Head(buffer) IN
         IF Len(entry.Message) = 0
         THEN UNCHANGED <<entries, delivered, runPc>>
         ELSE /\ entries' = appendEntry(entries, entry)
              /\ IF batchFull(entries')
                 THEN flush("size", entries', "flushSize", "select")
                 ELSE UNCHANGED <<delivered, runPc>>
    /\ UNCHANGED <<cfg, runErr, ctx, submitted, atShutdown, failures, apiVars,
                   rlVars, chainVars>>

\* case <-ticker.C: the worker has received a tick and is about to flush.
RunTick ==
    /\ runPc = "select"
    /\ runPc' = "tick"
    /\ UNCHANGED <<cfg, buffer, entries, runErr, ctx, delivered, calls, submitted,
                   enqueued, atShutdown, failures, apiVars, rlVars, chainVars>>

\* Faulty variant: the tick flushes only when the batch is full
TickFlushFullOnly ==
    /\ runPc = "tick"
    /\ flush("tick", IF Len(entries) >= cfg.BatchSize THEN entries ELSE <<>>,
             "flushTick", "select")
    /\ UNCHANGED <<cfg, buffer, entries, runErr, ctx, calls, submitted, enqueued,
                   atShutdown, failures, apiVars, rlVars, chainVars>>

\* b.flush(ctx, entries) of the tick; for an empty accumulator also
\* entries = entries[:0], back to the select.
TickFlush ==
    /\ runPc = "tick"
    /\ flush("tick", entries, "flushTick", "select")
    /\ UNCHANGED <<cfg, buffer, entries, runErr, ctx, calls, submitted, enqueued,
                   atShutdown, failures, apiVars, rlVars, chainVars>>

\* Faulty variant: a delivery error ends run, which returns it
FlushReturnEscalates ==
    /\ runPc \in {"flushSize", "flushTick"}
    /\ \E err \in {Nil, "delivery failed"} :
         /\ failures' = IF err # Nil THEN failures + 1 ELSE failures
         /\ runPc' = IF err # Nil THEN "done" ELSE "select"
         /\ runErr' = IF err # Nil THEN err ELSE runErr
    /\ entries' = <<>>
    /\ UNCHANGED <<cfg, buffer, ctx, calls, submitted, enqueued, atShutdown,
                   delivered, apiVars, rlVars, chainVars>>

\* Faulty variant: the accumulator is reset only when the delivery call succeeded
FlushReturnKeepsFailed ==
    /\ runPc \in {"flushSize", "flushTick"}
    /\ \E err \in {Nil, "delivery failed"} :
         /\ failures' = IF err # Nil THEN failures + 1 ELSE failures
         /\ entries' = IF err # Nil THEN entries ELSE <<>>
    /\ runPc' = "select"
    /\ UNCHANGED <<cfg, buffer, runErr, ctx, calls, submitted, enqueued,
                   atShutdown, delivered, apiVars, rlVars, chainVars>>

\* b.client.IngestLogs returns inside flush (its error is only logged), then
\* entries = entries[:0] and the loop selects again.
FlushReturn ==
    /\ runPc \in {"flushSize", "flushTick"}
    /\ \E err \in {Nil, "delivery failed"} :
         failures' = IF err # Nil THEN failures + 1 ELSE failures
    /\ entries' = <<>>
    /\ runPc' = "select"
    /\ UNCHANGED <<cfg, buffer, runErr, ctx, calls, submitted, enqueued,
                   atShutdown, delivered, apiVars, rlVars, chainVars>>

\* case <-ctx.Done(): run enters drainBuffer
RunCtxDone ==
    /\ runPc = "select"
    /\ ctx # "active"
    /\ runPc' = "drain"
    /\ atShutdown' = [acc |-> entries, chan |-> NonEmpty(buffer)]
    /\ UNCHANGED <<cfg, buffer, entries, runErr, ctx, delivered, calls,
                   submitted, enqueued, failures, apiVars, rlVars, chainVars>>

\* Faulty variant: no drain: run goes from ctx.Done() straight to the final flush
drainBufferSkipped ==
    /\ runPc = "drain"
    /\ flush("final", entries, "flushFinal", "done")
    /\ runErr' = IF runPc' = "done" THEN ctx ELSE runErr
    /\ UNCHANGED <<cfg, buffer, entries, ctx, calls, submitted, enqueued, atShutdown,
                   failures, apiVars, rlVars, chainVars>>

\* One turn of drainBuffer's loop: a non-blocking receive, or default: return,
\* after which run makes the final flush under shutdownCtx.
drainBuffer ==
    /\ runPc = "drain"
    /\ IF buffer # <<>>
       THEN /\ buffer' = Tail(buffer)
            /\ entries' = IF Len(Head(buffer).Message) > 0
                          THEN Append(entries, Head(buffer))
                          ELSE entries
            /\ UNCHANGED <<delivered, runPc, runErr>>
       ELSE /\ flush("final", entries, "flushFinal", "done")
            /\ runErr' = IF runPc' = "done" THEN ctx ELSE runErr
            /\ UNCHANGED <<buffer, entries>>
    /\ UNCHANGED <<cfg, ctx, calls, submitted, enqueued, atShutdown, failures,
                   apiVars, rlVars, chainVars>>

\* The final flush's delivery call returns; run returns ctx.Err().
FinalFlushReturn ==
    /\ runPc = "flushFinal"
    /\ \E err \in {Nil, "delivery failed"} :
         failures' = IF err # Nil THEN failures + 1 ELSE failures
    /\ runPc' = "done"
    /\ runErr' = ctx
    /\ UNCHANGED <<cfg, buffer, entries, ctx, calls, submitted, enqueued,
                   atShutdown, delivered, apiVars, rlVars, chainVars>>

BatchNext ==
    \/ Cancel
    \/ \E c \in Callers : IngestLogsCall(c)
    \/ \E c \in Callers : IngestEnqueue(c)
    \/ \E c \in Callers : IngestPark(c)
    \/ \E c \in Callers : IngestCtxDone(c)
    \/ \E c \in Callers : IngestTimeout(c)
    \/ RunReceive
    \/ RunTick
    \/ TickFlush
    \/ FlushReturn
    \/ RunCtxDone
    \/ drainBuffer
    \/ FinalFlushReturn

BatchStart == BatchInit /\ ApiIdle /\ RlIdle /\ ChainIdle

BatchSpec == BatchStart /\ [][BatchNext]_vars

\* The scheduling BatchFairSpec assumes: a caller standing at the select of
\* IngestLogs is not left there for ever while one of its cases is ready (the
\* goroutine is scheduled, and the EnqueueTimeout of its call elapses). Nothing is
\* assumed of the worker, which may stay inside a delivery call for ever.
BatchFairness ==
    \A c \in Callers :
        WF_vars(IngestEnqueue(c) \/ IngestCtxDone(c) \/ IngestTimeout(c))

BatchFairSpec == BatchSpec /\ BatchFairness

\* ---------------------------------------------------- BatchClient: claims

\* The batches handed to the Delivery Client, in order.
Batches == [i \in 1..Len(delivered) |-> delivered[i].batch]

\* Every entry handed to the Delivery Client, in order of handing over.
DeliveredEntries == Flatten(Batches)

\* C1: once run has received ctx.Done(), the entries the accumulator held and the
\* non-empty entries the ingress channel held at that moment are all in the final
\* flush, which is handed to the Delivery Client before Run returns: they are the
\* first entries of its batch, in that order.
C1_ShutdownFlushHoldsIngress ==
    (runPc \in {"flushFinal", "done"} /\ atShutdown.acc \o atShutdown.chan # <<>>) =>
        /\ delivered # <<>>
        /\ Last(delivered).trigger = "final"
        /\ IsPrefix(atShutdown.acc \o atShutdown.chan, Last(delivered).batch)

\* C1 witness: Run has returned after a shutdown that found one entry in the
\* accumulator and two in the channel.
C1_Witness ==
    /\ runPc = "done"
    /\ Len(atShutdown.acc) = 1
    /\ Len(atShutdown.chan) = 2

\* C2 (as claimed): once Run has returned and every IngestLogs call has returned,
\* with no delivery call having failed, as many entries were handed to the Delivery
\* Client as non-empty entries were sent on the channel.
C2_DeliveredEqualsEnqueued ==
    (/\ runPc = "done"
     /\ failures = 0
     /\ \A c \in Callers : calls[c].pc \notin {"select", "parked"}) =>
        Len(DeliveredEntries) = Len(NonEmpty(enqueued))

\* ceil(n / b)
CeilDiv(n, b) == (n + b - 1) \div b

\* C3 (as claimed): with no tick-triggered flush, once Run has returned the N
\* entries handed over came in ceil(N/B) batches, each of exactly B entries except
\* possibly the last (1..B), in arrival order.
C3_BatchesOfExactlyB ==
    (runPc = "done" /\ \A i \in 1..Len(delivered) : delivered[i].trigger # "tick") =>
        LET N == Len(DeliveredEntries)
            B == cfg.BatchSize
        IN /\ Len(delivered) = CeilDiv(N, B)
           /\ \A i \in 1..Len(delivered) :
                IF i < Len(delivered)
                THEN Len(delivered[i].batch) = B
                ELSE Len(delivered[i].batch) \in 1..B
           /\ IsPrefix(DeliveredEntries, NonEmpty(enqueued))

\* C4 (as claimed): every batch handed to the Delivery Client, the final shutdown
\* flush included, holds at most BatchSize entries.
C4_BatchAtMostBatchSize ==
    \A i \in 1..Len(delivered) : Len(delivered[i].batch) <= cfg.BatchSize

\* C5: the entries handed to the Delivery Client, read batch after batch, are the
\* first non-empty entries sent on the channel, in send order: none is handed over
\* before one enqueued earlier, none is repeated, none is skipped.
C5_DeliveredInEnqueueOrder ==
    IsPrefix(DeliveredEntries, NonEmpty(enqueued))

\* C5 witness: m1 then m2 with BatchSize 1 gave batch [m1] followed by batch [m2],
\* and a later entry went out with the final flush.
C5_Witness ==
    /\ cfg.BatchSize = 1
    /\ Len(delivered) = 3
    /\ Batches[1] = <<Entry("m", 1)>>
    /\ Batches[2] = <<Entry("m", 2)>>
    /\ delivered[3].trigger = "final"

\* C6: the channel never holds more than 2 x BatchSize entries; a call that returns
\* while the channel is full and stays full (the worker takes nothing from it in
\* that step) and the context is not done returns the timeout error and sends
\* nothing; and no call stays at its select for ever, even when the worker never
\* comes back from a delivery call.
C6_FullChannelTimesOut ==
    /\ [](Len(buffer) <= 2 * cfg.BatchSize)
    /\ [][\A c \in Callers :
            (/\ calls[c].pc \in {"select", "parked"}
             /\ calls'[c].pc = "returned"
             /\ Len(buffer) = 2 * cfg.BatchSize
             /\ Head(buffer') = Head(buffer)
             /\ ctx = "active")
            => (/\ calls'[c].err = ErrTimeout
                /\ buffer' = buffer
                /\ enqueued' = enqueued)]_vars
    /\ \A c \in Callers :
         (calls[c].pc \in {"select", "parked"}) ~> (calls[c].pc = "returned")

\* C6 witness: a call has returned the timeout error while the channel was full
\* and the worker was inside a size-triggered delivery call.
C6_Witness ==
    /\ Len(buffer) = 2 * cfg.BatchSize
    /\ runPc = "flushSize"
    /\ ctx = "active"
    /\ \E c \in Callers : calls[c].pc = "returned" /\ calls[c].err = ErrTimeout

\* C7: a tick that finds K entries in the accumulator, 0 < K < BatchSize, makes one
\* delivery call with exactly those K entries; when that call returns, nothing
\* more is delivered and the accumulator is empty.
C7_TickFlushesPartialBatch ==
    /\ [][(runPc = "tick" /\ runPc' # "tick" /\ Len(entries) > 0)
          => (/\ Len(entries) < cfg.BatchSize
              /\ runPc' = "flushTick"
              /\ delivered' = Append(delivered, Delivery("tick", entries))
              /\ entries' = entries)]_vars
    /\ [][(runPc = "flushTick" /\ runPc' # "flushTick")
          => (/\ delivered' = delivered
              /\ entries' = <<>>
              /\ runPc' = "select")]_vars

\* C7 witness: the tick's delivery call of one entry, BatchSize being 2, has
\* returned and the accumulator is empty.
C7_Witness ==
    /\ cfg.BatchSize = 2
    /\ runPc = "select"
    /\ entries = <<>>
    /\ delivered # <<>>
    /\ Last(delivered).trigger = "tick"
    /\ Len(Last(delivered).batch) = 1

\* C8: Run has returned only if the context is done, and then with the context's
\* error; until then it has returned nothing. A delivery call that fails leaves
\* the worker where a successful one does: back at the select with nothing
\* returned, or, for the final flush, returning the context's error.
C8_DeliveryFailureNotEscalated ==
    /\ [](runPc = "done" => (ctx # "active" /\ runErr = ctx))
    /\ [](runPc # "done" => runErr = Nil)
    /\ [][failures' # failures
          => IF runPc = "flushFinal"
             THEN runPc' = "done" /\ runErr' = ctx
             ELSE runPc' = "select" /\ runErr' = Nil]_vars

\* C8 witness: three delivery calls were made and all failed, the final one
\* included, and Run has returned the context's error.
C8_Witness ==
    /\ runPc = "done"
    /\ runErr = ErrCanceled
    /\ Len(delivered) = 3
    /\ failures = 3

\* ========================================================== APIClientImpl
\* Milliseconds.
BaseBackoff == 100
DefaultMaxRetries == 3
DefaultMaxRetryBackoffWait == 5000
StatusOK == 200
\* httpClient.Do returned an error instead of a response.
NoResponse == 0

\* What one doIngestRequest can meet: a response with a status, or no response.
Responses == {StatusOK, 201, 400, 500, 503, NoResponse}
\* MaxRetryBackoffWait options (ms); 0 is the unset option.
BackoffWaitOpts == {0, 250, 500}

\* An error value: its kind, the numbers its text is formatted with (%d), and
\* the error it wraps (%w), whose text ends its own.
NilErr == [kind |-> "nil"]
\* &httpError{statusCode, message}, the message being
\* "ingest logs failed: expected status %d, got %d: %v" of StatusOK and the status.
httpError(statusCode) ==
    [kind |-> "http", statusCode |-> statusCode, args |-> <<StatusOK, statusCode>>]
\* The error of httpClient.Do (or of building the request).
transportError == [kind |-> "transport", args |-> <<>>]
\* ctx.Err()
ctxError(err) == [kind |-> "ctx", err |-> err, args |-> <<>>]
\* fmt.Errorf("ingest logs failed after %d retries: %w", maxRetries, lastErr)
retriesError(max, err) ==
    [kind |-> "retries", args |-> <<max>> \o err.args, wraps |-> err]

\* Faulty variant: a negative MaxRetries is taken for unset as well
NewAPIClientNegativeUnset(opts) ==
    [MaxRetries |-> IF opts.MaxRetries <= 0 THEN DefaultMaxRetries ELSE opts.MaxRetries,
     MaxRetryBackoffWait |-> IF opts.MaxRetryBackoffWait = 0
                             THEN DefaultMaxRetryBackoffWait
                             ELSE opts.MaxRetryBackoffWait]

\* NewAPIClient: the defaults it fills in.
NewAPIClient(opts) ==
    [MaxRetries |-> IF opts.MaxRetries = 0 THEN DefaultMaxRetries ELSE opts.MaxRetries,
     MaxRetryBackoffWait |-> IF opts.MaxRetryBackoffWait = 0
                             THEN DefaultMaxRetryBackoffWait
                             ELSE opts.MaxRetryBackoffWait]

\* maxRetries := a.cfg.MaxRetries; if maxRetries < 0 { maxRetries = 0 }
maxRetries == IF apiCfg.MaxRetries < 0 THEN 0 ELSE apiCfg.MaxRetries

\* waitTime := backoff * time.Duration(1<<attempt-1), capped at MaxRetryBackoffWait.
\* Go parses 1<<attempt-1 as (1<<attempt)-1.
waitTime(n) ==
    LET w == BaseBackoff * ((2 ^ n) - 1)
    IN IF w > apiCfg.MaxRetryBackoffWait THEN apiCfg.MaxRetryBackoffWait ELSE w

\* doIngestRequest: nil for a 200, an httpError for any other status, the
\* transport's error when there is no response.
doIngestRequest(resp) ==
    IF resp = NoResponse THEN transportError
    ELSE IF resp # StatusOK THEN httpError(resp)
    ELSE NilErr

\* Faulty variant: the last retry is not made
shouldRetryOneLess(err, n, max) ==
    IF n + 1 >= max THEN FALSE
    ELSE IF err.kind = "http" THEN err.statusCode >= 500
    ELSE TRUE

\* Faulty variant: client errors (4xx) are retried as well
shouldRetryClientErrors(err, n, max) ==
    IF n >= max THEN FALSE
    ELSE IF err.kind = "http" THEN err.statusCode >= 400
    ELSE TRUE

\* Faulty variant: an error that is no httpError is never retried
shouldRetryHttpOnly(err, n, max) ==
    IF n >= max THEN FALSE
    ELSE IF err.kind = "http" THEN err.statusCode >= 500
    ELSE FALSE

\* shouldRetry: never once attempt has reached maxRetries; an httpError only for
\* a status >= 500; any other error always.
shouldRetry(err, n, max) ==
    IF n >= max THEN FALSE
    ELSE IF err.kind = "http" THEN err.statusCode >= 500
    ELSE TRUE

\* Faulty variant: a nil error does not end the loop
afterRequestNoReturnOnNil(err, n) ==
    IF ~shouldRetry(err, n, maxRetries)
    THEN [pc |-> "done", ret |-> err, attempt |-> n]
    ELSE IF n + 1 <= maxRetries
    THEN [pc |-> "backoff", ret |-> NilErr, attempt |-> n + 1]
    ELSE [pc |-> "done", ret |-> retriesError(maxRetries, err), attempt |-> n + 1]

\* The rest of the loop body after doIngestRequest returned err in attempt n:
\* return nil, return err, go on to the next attempt (its backoff wait first), or
\* leave the loop and return the "after %d retries" error.
afterRequest(err, n) ==
    IF err = NilErr
    THEN [pc |-> "done", ret |-> NilErr, attempt |-> n]
    ELSE IF ~shouldRetry(err, n, maxRetries)
    THEN [pc |-> "done", ret |-> err, attempt |-> n]
    ELSE IF n + 1 <= maxRetries
    THEN [pc |-> "backoff", ret |-> NilErr, attempt |-> n + 1]
    ELSE [pc |-> "done", ret |-> retriesError(maxRetries, err), attempt |-> n + 1]

\* NewAPIClient(opts), before any call.
ApiInit ==
    /\ apiOpts \in [MaxRetries : -1..MaxRetriesOpt, MaxRetryBackoffWait : BackoffWaitOpts]
    /\ apiCfg = NewAPIClient(apiOpts)
    /\ apiPc = "idle"
    /\ attempt = 0
    /\ requests = <<>>
    /\ waits = <<>>
    /\ lastErr = NilErr
    /\ apiErr = NilErr
    /\ apiCtx = "active"

\* No BatchClient takes part in DeliverySpec.
BatchIdle ==
    /\ cfg = [BatchSize |-> 1]
    /\ buffer = <<>>
    /\ entries = <<>>
    /\ runPc = "select"
    /\ runErr = Nil
    /\ ctx = "active"
    /\ delivered = <<>>
    /\ calls = [c \in Callers |-> IdleCall]
    /\ submitted = 0
    /\ failures = 0
    /\ enqueued = <<>>
    /\ atShutdown = [acc |-> <<>>, chan |-> <<>>]

\* The context of the call is cancelled.
ApiCancel ==
    /\ apiCtx = "active"
    /\ apiPc # "done"
    /\ apiCtx' = ErrCanceled
    /\ UNCHANGED <<apiOpts, apiCfg, apiPc, attempt, requests, waits, lastErr, apiErr,
                   batchVars, rlVars, chainVars>>

\* IngestLogs is called: the payload is marshalled and the loop starts at attempt 0,
\* which waits for nothing.
ApiIngestLogs ==
    /\ apiPc = "idle"
    /\ apiPc' = "request"
    /\ attempt' = 0
    /\ UNCHANGED <<apiOpts, apiCfg, requests, waits, lastErr, apiErr, apiCtx, batchVars, rlVars, chainVars>>

\* Faulty variant: the select of a retry has no ctx.Done() case to take first
ApiBackoffWaitedIgnoringCtx ==
    /\ apiPc = "backoff"
    /\ waits' = Append(waits, waitTime(attempt))
    /\ apiPc' = "request"
    /\ UNCHANGED <<apiOpts, apiCfg, attempt, requests, lastErr, apiErr, apiCtx,
                   batchVars, rlVars, chainVars>>

\* The select of a retry (attempt > 0), case <-time.After(waitTime): the timer
\* fires after waitTime. The select takes the first case to become ready, so the
\* timer's case is taken only if the context was not done before it fired (or the
\* wait is no wait at all, both cases being ready at once).
ApiBackoffWaited ==
    /\ apiPc = "backoff"
    /\ apiCtx = "active" \/ waitTime(attempt) <= 0
    /\ waits' = Append(waits, waitTime(attempt))
    /\ apiPc' = "request"
    /\ UNCHANGED <<apiOpts, apiCfg, attempt, requests, lastErr, apiErr, apiCtx,
                   batchVars, rlVars, chainVars>>

\* The select of a retry, case <-ctx.Done(): return ctx.Err().
ApiBackoffCtxDone ==
    /\ apiPc = "backoff"
    /\ apiCtx # "active"
    /\ apiErr' = ctxError(apiCtx)
    /\ apiPc' = "done"
    /\ UNCHANGED <<apiOpts, apiCfg, attempt, requests, waits, lastErr, apiCtx,
                   batchVars, rlVars, chainVars>>

\* One doIngestRequest and what the loop does with its error. A request under a
\* context that is already done gets no response.
ApiAttempt ==
    /\ apiPc = "request"
    /\ \E resp \in (IF apiCtx = "active" THEN Responses ELSE {NoResponse}) :
         LET err == doIngestRequest(resp)
             next == afterRequest(err, attempt)
         IN /\ requests' = Append(requests, resp)
            /\ lastErr' = IF err = NilErr THEN lastErr ELSE err
            /\ apiPc' = next.pc
            /\ apiErr' = next.ret
            /\ attempt' = next.attempt
    /\ UNCHANGED <<apiOpts, apiCfg, waits, apiCtx, batchVars, rlVars, chainVars>>

DeliveryNext ==
    \/ ApiCancel
    \/ ApiIngestLogs
    \/ ApiBackoffWaited
    \/ ApiBackoffCtxDone
    \/ ApiAttempt

DeliveryStart == ApiInit /\ BatchIdle /\ RlIdle /\ ChainIdle

DeliverySpec == DeliveryStart /\ [][DeliveryNext]_vars

\* -------------------------------------------------- APIClientImpl: claims

\* The numbers an error's text shows.
Mentions(err) == {err.args[i] : i \in 1..Len(err.args)}

Is5xx(resp) == resp >= 500 /\ resp <= 599

\* C9: built with MaxRetries = R > 0, IngestLogs never makes more than R+1
\* requests; and when every request was answered by a 5xx and the call was not cut
\* short by its context during a backoff wait, it has made exactly R+1 requests
\* when it returns, and returns an error whose text shows the status code.
C9_RetriesThenFailure ==
    /\ (apiOpts.MaxRetries > 0 => Len(requests) <= apiOpts.MaxRetries + 1)
    /\ (/\ apiPc = "done"
        /\ apiOpts.MaxRetries > 0
        /\ apiErr.kind # "ctx"
        /\ \A i \in 1..Len(requests) : Is5xx(requests[i]))
       => (/\ Len(requests) = apiOpts.MaxRetries + 1
           /\ apiErr # NilErr
           /\ Last(requests) \in Mentions(apiErr))

\* C9 witness: [500, 500, 500] with MaxRetries = 2: three requests, then a failure.
C9_Witness ==
    /\ apiOpts.MaxRetries = 2
    /\ requests = <<500, 500, 500>>
    /\ apiPc = "done"
    /\ apiErr # NilErr

\* C10: a request answered 200 is the last request of the call: the call has
\* returned, and returned nil.
C10_StopsAtFirstSuccess ==
    /\ \A i \in 1..Len(requests) : requests[i] = StatusOK => i = Len(requests)
    /\ (requests # <<>> /\ Last(requests) = StatusOK)
       => (apiPc = "done" /\ apiErr = NilErr)

\* C10 witness: [500, 500, 200] with MaxRetries = 3: three requests and success.
C10_Witness ==
    /\ apiOpts.MaxRetries = 3
    /\ requests = <<500, 500, StatusOK>>
    /\ apiPc = "done"
    /\ apiErr = NilErr

Is4xx(resp) == resp >= 400 /\ resp <= 499

\* The request failed in a way shouldRetry classifies retryable: no response
\* (a transport-level error) or a response with status >= 500.
Retryable(resp) == resp = NoResponse \/ resp >= 500

\* attempt i (the i-th request, attempt = i - 1) had retry budget left.
BudgetRemains(i) == i - 1 < maxRetries

Min(a, b) == IF a < b THEN a ELSE b

\* C11: a request answered by a 4xx is the last request of the call, whatever
\* MaxRetries is: the call has returned, and returned an httpError of that status
\* whose text shows the status code.
C11_ClientErrorIsTerminal ==
    \A i \in 1..Len(requests) :
        Is4xx(requests[i]) =>
            /\ i = Len(requests)
            /\ apiPc = "done"
            /\ apiErr = httpError(requests[i])
            /\ requests[i] \in Mentions(apiErr)

\* C11 witness: [400] with MaxRetries = 3: one request, then the failure.
C11_Witness ==
    /\ apiOpts.MaxRetries = 3
    /\ requests = <<400>>
    /\ apiPc = "done"
    /\ apiErr = httpError(400)

\* C12: a failed request is followed by another one only if it had retry budget
\* left and was a transport error or a status >= 500; a failed request that had
\* budget left and was of that kind is followed by the backoff wait of the next
\* attempt, which ends in the next request unless the context ends it; any other
\* failed request ends the call with an error and no retry.
C12_RetryIffRetryableAndBudget ==
    /\ [](\A i \in 1..Len(requests) :
            LET failed == requests[i] # StatusOK
                again == Retryable(requests[i]) /\ BudgetRemains(i)
            IN /\ (i < Len(requests)) => (failed /\ again)
               /\ (i = Len(requests) /\ failed /\ again) =>
                    \/ apiPc \in {"backoff", "request"}
                    \/ apiPc = "done" /\ apiErr.kind = "ctx"
               /\ (i = Len(requests) /\ failed /\ ~again) =>
                    /\ apiPc = "done"
                    /\ apiErr = doIngestRequest(requests[i]))
    /\ [][(apiPc = "backoff" /\ apiPc' # "backoff") =>
             \/ apiPc' = "request" /\ apiCtx = "active"
             \/ apiPc' = "done" /\ apiCtx # "active" /\ apiErr'.kind = "ctx"]_vars

\* C12 witness: a transport error and a 503 were each retried, and the 201 that
\* followed ended the call with budget left.
C12_Witness ==
    /\ apiOpts.MaxRetries = 3
    /\ requests = <<NoResponse, 503, 201>>
    /\ apiPc = "done"
    /\ apiErr = httpError(201)

\* C13 (as claimed): when the retry budget is exhausted, every request having
\* failed retryably, the call returns the "ingest logs failed after N retries"
\* error, N being the retries made, wrapping the last failure.
C13_ExhaustionNamesRetries ==
    (/\ apiPc = "done"
     /\ apiOpts.MaxRetries > 0
     /\ Len(requests) = maxRetries + 1
     /\ \A i \in 1..Len(requests) : Retryable(requests[i]))
    => (/\ apiErr.kind = "retries"
        /\ apiErr.wraps = lastErr
        /\ maxRetries \in Mentions(apiErr))

\* C14 (as claimed): the wait before the k-th retry is
\* min(base * 2^(k-1), MaxRetryBackoffWait): 100ms, 200ms, 400ms, ...
C14_BackoffDoubles ==
    \A k \in 1..Len(waits) :
        waits[k] = Min(BaseBackoff * (2 ^ (k - 1)), apiCfg.MaxRetryBackoffWait)

\* C15: a backoff wait during which the context is done ends in one way only: the
\* call returns the context's error and no request is made; and a call that
\* returned the context's error makes no request afterwards.
C15_CancelDuringBackoffAborts ==
    /\ [][(apiPc = "backoff" /\ apiCtx # "active" /\ apiPc' # "backoff") =>
             (/\ apiPc' = "done"
              /\ apiErr' = ctxError(apiCtx)
              /\ requests' = requests
              /\ waits' = waits)]_vars
    /\ [][(apiPc = "done" /\ apiErr.kind = "ctx") =>
             (requests' = requests /\ apiPc' = "done" /\ apiErr' = apiErr)]_vars

\* C15 witness: the context was cancelled during the wait after a 500, with two
\* retries left: the call returned the context's error after that one request.
C15_Witness ==
    /\ apiOpts.MaxRetries = 3
    /\ requests = <<500>>
    /\ waits = <<>>
    /\ apiPc = "done"
    /\ apiErr = ctxError(ErrCanceled)

\* C16 (as claimed): built with a negative or zero MaxRetries, IngestLogs makes
\* exactly one request whatever its outcome.
C16_NonPositiveDisablesRetries ==
    apiOpts.MaxRetries <= 0 =>
        /\ Len(requests) <= 1
        /\ apiPc = "done" => Len(requests) = 1

\* C16 (amended): built with a negative MaxRetries, IngestLogs makes exactly one
\* request whatever its outcome; a zero MaxRetries is the unset option, for which
\* NewAPIClient stores the default of 3 retries.
C16_NegativeDisablesRetries ==
    /\ apiOpts.MaxRetries < 0 =>
         /\ Len(requests) <= 1
         /\ waits = <<>>
         /\ apiPc = "done" => Len(requests) = 1
    /\ apiOpts.MaxRetries = 0 =>
         /\ apiCfg.MaxRetries = DefaultMaxRetries
         /\ Len(requests) <= DefaultMaxRetries + 1

\* C16 witness: MaxRetries = -1 and a 500: the call has returned the failure
\* after its one request.
C16_Witness ==
    /\ apiOpts.MaxRetries = -1
    /\ requests = <<500>>
    /\ apiPc = "done"
    /\ apiErr = httpError(500)

\* ======================================================= RateLimitHandler
\* rate.NewLimiter(logsRate, burst): the bucket holds at most burst tokens and
\* starts full. Tokens are counted in parts, RefillSteps parts to a token: the
\* Limit adds one part per clock step.
NewLimiter(burst) == burst * RefillSteps

\* Limiter.Allow() on a bucket of `tokens` parts: whether it takes a token, and
\* what it leaves.
Allow(tokens) ==
    IF tokens >= RefillSteps
    THEN [ok |-> TRUE, tokens |-> tokens - RefillSteps]
    ELSE [ok |-> FALSE, tokens |-> tokens]

\* NewRateLimitHandler(cfg), not yet registered in a chain.
RlInit ==
    /\ rlCfg \in [Burst : 1..MaxBurst]
    /\ nextHandler = "nil"
    /\ rt = [l \in Levels |-> NewLimiter(rlCfg.Burst)]
    /\ droppedLogsCounters = [l \in Levels |-> 0]
    /\ enabled = [g \in Emitters |-> NoEnabledCall]
    /\ rep = ReporterAtSelect
    /\ repCtx = "active"
    /\ now = 0
    /\ attempts = <<>>
    /\ reported = [l \in Levels |-> 0]

\* Register(next): h.next = next
Register ==
    /\ nextHandler = "nil"
    /\ nextHandler' = "set"
    /\ UNCHANGED <<rlCfg, rt, droppedLogsCounters, enabled, rep, repCtx, now,
                   attempts, reported, batchVars, apiVars, chainVars>>

\* One clock step passes: every bucket gains a part, up to its burst.
Elapse ==
    /\ now < MaxClock
    /\ now' = now + 1
    /\ rt' = [l \in Levels |->
                IF rt[l] < NewLimiter(rlCfg.Burst) THEN rt[l] + 1 ELSE rt[l]]
    /\ UNCHANGED <<rlCfg, nextHandler, droppedLogsCounters, enabled, rep, repCtx,
                   attempts, reported, batchVars, apiVars, chainVars>>

\* ---- Enabled (one goroutine per emitter)

\* The Enabled call has returned ret; its locals are gone.
EnabledReturned(ret) == [NoEnabledCall EXCEPT !.pc = "returned", !.ret = ret]

\* Enabled calls that have still to reach Allow().
BeforeAllow == {g \in Emitters : enabled[g].pc = "next"}

\* Enabled(ctx, level) is called: with no h.next it returns true at once, else it
\* is about to ask h.next.
EnabledCall(g) ==
    /\ enabled[g].pc \in {"idle", "returned"}
    /\ Len(attempts) + Cardinality(BeforeAllow) < MaxAttempts
    /\ \E level \in EmitLevels :
         enabled' = [enabled EXCEPT ![g] =
                        IF nextHandler = "nil"
                        THEN EnabledReturned(TRUE)
                        ELSE [pc |-> "next", level |-> level, ret |-> FALSE]]
    /\ UNCHANGED <<rlCfg, nextHandler, rt, droppedLogsCounters, rep, repCtx, now,
                   attempts, reported, batchVars, apiVars, chainVars>>

\* Faulty variant: the bucket is asked before h.next, and its token is gone
NextRefusesAfterAllow(g) ==
    /\ enabled[g].pc = "next"
    /\ rt' = [rt EXCEPT ![enabled[g].level] = Allow(@).tokens]
    /\ enabled' = [enabled EXCEPT ![g] = EnabledReturned(FALSE)]
    /\ UNCHANGED <<rlCfg, nextHandler, droppedLogsCounters, rep, repCtx, now,
                   attempts, reported, batchVars, apiVars, chainVars>>

\* if !h.next.Enabled(ctx, level) { return false }: the wrapped handler refuses.
NextRefuses(g) ==
    /\ enabled[g].pc = "next"
    /\ enabled' = [enabled EXCEPT ![g] = EnabledReturned(FALSE)]
    /\ UNCHANGED <<rlCfg, nextHandler, rt, droppedLogsCounters, rep, repCtx, now,
                   attempts, reported, batchVars, apiVars, chainVars>>

\* Faulty variant: a refused attempt returns false without being counted
AllowStepDropUncounted(g) ==
    /\ enabled[g].pc = "next"
    /\ LET level == enabled[g].level
           a == Allow(rt[level])
       IN /\ rt' = [rt EXCEPT ![level] = a.tokens]
          /\ attempts' = Append(attempts, [level |-> level, at |-> now, ok |-> a.ok])
          /\ enabled' = [enabled EXCEPT ![g] = EnabledReturned(a.ok)]
    /\ UNCHANGED <<rlCfg, nextHandler, droppedLogsCounters, rep, repCtx, now,
                   reported, batchVars, apiVars, chainVars>>

\* h.next.Enabled accepts and h.rt[level].Allow() is called: with a token taken
\* the call returns true, else it goes on to count the drop.
AllowStep(g) ==
    /\ enabled[g].pc = "next"
    /\ LET level == enabled[g].level
           a == Allow(rt[level])
       IN /\ rt' = [rt EXCEPT ![level] = a.tokens]
          /\ attempts' = Append(attempts, [level |-> level, at |-> now, ok |-> a.ok])
          /\ enabled' = [enabled EXCEPT ![g] =
                            IF a.ok THEN EnabledReturned(TRUE)
                            ELSE [pc |-> "add", level |-> level, ret |-> FALSE]]
    /\ UNCHANGED <<rlCfg, nextHandler, droppedLogsCounters, rep, repCtx, now,
                   reported, batchVars, apiVars, chainVars>>

\* Faulty variant: the drop is counted for every level
AddDroppedEveryLevel(g) ==
    /\ enabled[g].pc = "add"
    /\ droppedLogsCounters' = [l \in Levels |-> droppedLogsCounters[l] + 1]
    /\ enabled' = [enabled EXCEPT ![g] = EnabledReturned(FALSE)]
    /\ UNCHANGED <<rlCfg, nextHandler, rt, rep, repCtx, now, attempts, reported,
                   batchVars, apiVars, chainVars>>

\* h.droppedLogsCounters[level].Add(1); return false
AddDropped(g) ==
    /\ enabled[g].pc = "add"
    /\ droppedLogsCounters' =
         [droppedLogsCounters EXCEPT ![enabled[g].level] = @ + 1]
    /\ enabled' = [enabled EXCEPT ![g] = EnabledReturned(FALSE)]
    /\ UNCHANGED <<rlCfg, nextHandler, rt, rep, repCtx, now, attempts, reported,
                   batchVars, apiVars, chainVars>>

\* ---- PrintDroppedLogs (one goroutine)

\* The reporter's context is cancelled.
RepCancel ==
    /\ repCtx = "active"
    /\ repCtx' = ErrCanceled
    /\ UNCHANGED <<rlCfg, nextHandler, rt, droppedLogsCounters, enabled, rep, now,
                   attempts, reported, batchVars, apiVars, chainVars>>

\* case <-ctx.Done(): return
RepCtxDone ==
    /\ rep.pc = "select"
    /\ repCtx # "active"
    /\ rep' = [rep EXCEPT !.pc = "done"]
    /\ UNCHANGED <<rlCfg, nextHandler, rt, droppedLogsCounters, enabled, repCtx,
                   now, attempts, reported, batchVars, apiVars, chainVars>>

\* case <-ticker.C: the range over r.droppedLogsCounters starts.
RepTick ==
    /\ rep.pc = "select"
    /\ rep' = [rep EXCEPT !.pc = "range", !.pending = Levels]
    /\ UNCHANGED <<rlCfg, nextHandler, rt, droppedLogsCounters, enabled, repCtx,
                   now, attempts, reported, batchVars, apiVars, chainVars>>

\* The range goes on after a level: to the next one, or back to the select.
rangeOn(pending) ==
    IF pending = {} THEN ReporterAtSelect
    ELSE [ReporterAtSelect EXCEPT !.pc = "range", !.pending = pending]

\* Faulty variant: a zero count is not skipped
RepLoadPrintsZero ==
    /\ rep.pc = "range"
    /\ \E level \in rep.pending :
         rep' = [pc |-> "print", pending |-> rep.pending \ {level}, level |-> level,
                 count |-> droppedLogsCounters[level]]
    /\ UNCHANGED <<rlCfg, nextHandler, rt, droppedLogsCounters, enabled, repCtx,
                   now, attempts, reported, batchVars, apiVars, chainVars>>

\* The range takes a level (a map is ranged over in any order) and
\* count := val.Load(); a zero count is skipped.
RepLoad ==
    /\ rep.pc = "range"
    /\ \E level \in rep.pending :
         LET count == droppedLogsCounters[level]
             rest == rep.pending \ {level}
         IN rep' = IF count > 0
                   THEN [pc |-> "print", pending |-> rest, level |-> level,
                         count |-> count]
                   ELSE rangeOn(rest)
    /\ UNCHANGED <<rlCfg, nextHandler, rt, droppedLogsCounters, enabled, repCtx,
                   now, attempts, reported, batchVars, apiVars, chainVars>>

\* printFunc(level, count)
RepPrint ==
    /\ rep.pc = "print"
    /\ reported' = [reported EXCEPT ![rep.level] = @ + rep.count]
    /\ rep' = [rep EXCEPT !.pc = "store"]
    /\ UNCHANGED <<rlCfg, nextHandler, rt, droppedLogsCounters, enabled, repCtx,
                   now, attempts, batchVars, apiVars, chainVars>>

\* val.Store(0)
RepStore ==
    /\ rep.pc = "store"
    /\ droppedLogsCounters' = [droppedLogsCounters EXCEPT ![rep.level] = 0]
    /\ rep' = rangeOn(rep.pending)
    /\ UNCHANGED <<rlCfg, nextHandler, rt, enabled, repCtx, now, attempts,
                   reported, batchVars, apiVars, chainVars>>

RateLimitNext ==
    \/ Register
    \/ Elapse
    \/ \E g \in Emitters : EnabledCall(g)
    \/ \E g \in Emitters : NextRefuses(g)
    \/ \E g \in Emitters : AllowStep(g)
    \/ \E g \in Emitters : AddDropped(g)
    \/ RepCancel
    \/ RepCtxDone
    \/ RepTick
    \/ RepLoad
    \/ RepPrint
    \/ RepStore

RateLimitStart == RlInit /\ BatchIdle /\ ApiIdle /\ ChainIdle

RateLimitSpec == RateLimitStart /\ [][RateLimitNext]_vars

\* ---------------------------------------------- RateLimitHandler: claims

\* Attempts of `level` that its bucket refused.
Refused(level) ==
    Cardinality({k \in 1..Len(attempts) :
                    attempts[k].level = level /\ ~attempts[k].ok})

\* Refused attempts of `level` whose Add(1) is still to come.
Uncounted(level) ==
    Cardinality({g \in Emitters : enabled[g].pc = "add" /\ enabled[g].level = level})

\* C17: an Enabled call that h.next accepted asks the bucket of its level once.
\* With a token there, exactly one token leaves that bucket, the call returns
\* true and no counter changes; with none, the bucket keeps what it has and the
\* call goes on to add exactly 1 to the counter of its level and return false.
\* Neither step touches a bucket or a counter of another level.
C17_OneTokenOrOneDrop ==
    [][\A g \in Emitters :
        LET level == enabled[g].level IN
        /\ (enabled[g].pc = "next" /\ enabled'[g] # enabled[g] /\ attempts' # attempts) =>
             /\ \A m \in Levels \ {level} : rt'[m] = rt[m]
             /\ droppedLogsCounters' = droppedLogsCounters
             /\ IF rt[level] >= RefillSteps
                THEN /\ rt'[level] = rt[level] - RefillSteps
                     /\ enabled'[g] = EnabledReturned(TRUE)
                ELSE /\ rt'[level] = rt[level]
                     /\ enabled'[g].pc = "add"
                     /\ enabled'[g].level = level
        /\ (enabled[g].pc = "add" /\ enabled'[g] # enabled[g]) =>
             /\ enabled'[g] = EnabledReturned(FALSE)
             /\ rt' = rt
             /\ droppedLogsCounters'[level] = droppedLogsCounters[level] + 1
             /\ \A m \in Levels \ {level} :
                  droppedLogsCounters'[m] = droppedLogsCounters[m]]_vars

\* C17 witness: with burst 1 and no refill, an INFO attempt was admitted, a
\* second was refused and counted, and an ERROR attempt was then admitted from
\* its own bucket; no other bucket or counter has moved.
C17_Witness ==
    /\ rlCfg.Burst = 1
    /\ attempts = <<[level |-> "INFO", at |-> 0, ok |-> TRUE],
                    [level |-> "INFO", at |-> 0, ok |-> FALSE],
                    [level |-> "ERROR", at |-> 0, ok |-> TRUE]>>
    /\ rt = [l \in Levels |-> IF l \in EmitLevels THEN 0 ELSE NewLimiter(1)]
    /\ droppedLogsCounters = [l \in Levels |-> IF l = "INFO" THEN 1 ELSE 0]
    /\ \A g \in Emitters : enabled[g].pc = "returned"

\* C18: an Enabled call that h.next refuses returns false, and the step changes
\* no bucket and no counter.
C18_RefusedDownstreamNoToken ==
    [][\A g \in Emitters :
        (enabled[g].pc = "next" /\ enabled'[g] # enabled[g] /\ attempts' = attempts) =>
            /\ enabled'[g] = EnabledReturned(FALSE)
            /\ rt' = rt
            /\ droppedLogsCounters' = droppedLogsCounters]_vars

\* C18 witness: a call returned false with no bucket ever asked: every bucket is
\* full and every counter is zero.
C18_Witness ==
    /\ nextHandler = "set"
    /\ attempts = <<>>
    /\ \E g \in Emitters : enabled[g] = EnabledReturned(FALSE)
    /\ \A l \in Levels : rt[l] = NewLimiter(rlCfg.Burst) /\ droppedLogsCounters[l] = 0

\* C19: among the attempts of one level made within less than T of each other, at
\* most burst are admitted (so of burst+1, at least one is dropped); and until the
\* reporter prints a level's count, the counter of that level, with the refused
\* attempts about to Add(1), equals the number of attempts its bucket refused.
C19_BurstPlusOneWithinT ==
    \A l \in Levels :
        /\ \A i \in 1..Len(attempts) : \A j \in i..Len(attempts) :
             (attempts[j].at - attempts[i].at < RefillSteps) =>
                Cardinality({k \in i..j : attempts[k].level = l /\ attempts[k].ok})
                    <= rlCfg.Burst
        /\ (reported[l] = 0) =>
             droppedLogsCounters[l] + Uncounted(l) = Refused(l)

\* C19 witness: with burst 1, an INFO attempt on the full bucket was admitted and
\* a second one, half a refill interval later, was dropped and counted once.
C19_Witness ==
    /\ rlCfg.Burst = 1
    /\ attempts = <<[level |-> "INFO", at |-> 0, ok |-> TRUE],
                    [level |-> "INFO", at |-> 1, ok |-> FALSE]>>
    /\ droppedLogsCounters["INFO"] = 1
    /\ reported["INFO"] = 0

\* The count the reporter has passed to printFunc and is about to erase.
BeingReset(level) ==
    IF rep.pc = "store" /\ rep.level = level THEN rep.count ELSE 0

\* C20 (as claimed): for each level, the counts passed to printFunc plus the
\* counter's value account for every attempt the bucket refused (those about to
\* Add(1), and the count the reporter is about to zero, being counted once).
C20_DropCountingLossless ==
    \A l \in Levels :
        reported[l] + droppedLogsCounters[l] - BeingReset(l) + Uncounted(l)
            = Refused(l)

\* C21: a tick ranges over every level once: the range starts with all the levels
\* to visit and is back at the select only when none is left. A level whose
\* counter is non-zero when the range reads it gets one printFunc call with the
\* value read, after which its counter, and no other, is set to zero; a level
\* whose counter reads zero gets no call and no store.
C21_ReportsNonZeroOncePerTick ==
    /\ [][(rep.pc = "select" /\ rep'.pc = "range") => rep'.pending = Levels]_vars
    /\ [][(rep.pc = "range" /\ rep' # rep) =>
            \E l \in rep.pending :
                /\ rep'.pending = rep.pending \ {l}
                /\ reported' = reported
                /\ droppedLogsCounters' = droppedLogsCounters
                /\ IF droppedLogsCounters[l] > 0
                   THEN /\ rep'.pc = "print"
                        /\ rep'.level = l
                        /\ rep'.count = droppedLogsCounters[l]
                   ELSE rep'.pc = IF rep'.pending = {} THEN "select" ELSE "range"]_vars
    /\ [][(reported' # reported) =>
            /\ rep.pc = "print"
            /\ rep.count > 0
            /\ reported' = [reported EXCEPT ![rep.level] = @ + rep.count]
            /\ droppedLogsCounters' = droppedLogsCounters
            /\ rep' = [rep EXCEPT !.pc = "store"]]_vars
    /\ [][(rep.pc = "store" /\ rep' # rep) =>
            /\ droppedLogsCounters' = [droppedLogsCounters EXCEPT ![rep.level] = 0]
            /\ reported' = reported
            /\ rep'.pending = rep.pending
            /\ rep'.pc = IF rep.pending = {} THEN "select" ELSE "range"]_vars
    /\ [](rep.pc \in {"print", "store"} => rep.level \notin rep.pending)

\* C21 witness: a tick found the INFO counter at 2 and the others at zero: one
\* printFunc call with 2, the counter is zero again, the reporter is back at its
\* select and nothing was reported for another level.
C21_Witness ==
    /\ rep.pc = "select"
    /\ reported = [l \in Levels |-> IF l = "INFO" THEN 2 ELSE 0]
    /\ droppedLogsCounters = [l \in Levels |-> 0]
    /\ Refused("INFO") = 2

\* C29: the delivery call of the final flush is made under shutdownCtx, which is
\* not done when the call is made, whatever the caller's context is; and the
\* final flush is made only after the caller's context is done.
C29_FinalFlushUnderFreshContext ==
    \A i \in 1..Len(delivered) :
        delivered[i].trigger = "final" =>
            /\ ctx # "active"
            /\ delivered[i].ctx = "shutdownCtx"
            /\ ~delivered[i].cancelled
            /\ i = Len(delivered)

\* C29 witness: the caller's context is cancelled and Run has returned after a
\* final flush of two drained entries, made under shutdownCtx.
C29_Witness ==
    /\ ctx = ErrCanceled
    /\ runPc = "done"
    /\ delivered # <<>>
    /\ Last(delivered).trigger = "final"
    /\ Last(delivered).ctx = "shutdownCtx"
    /\ Len(Last(delivered).batch) = 2

\* C30: a call waiting to send on the full channel when the context is cancelled
\* does one thing only: it returns the context's error, which is not the timeout
\* error, and its entry is not sent; and the context's error is returned only with
\* the context done.
C30_CancelWhileWaitingToEnqueue ==
    /\ ErrCanceled # ErrTimeout
    /\ [][\A c \in Callers :
            (/\ calls[c].pc = "parked"
             /\ ctx # "active"
             /\ calls'[c] # calls[c])
            => (/\ calls'[c] = Failed(calls[c], ctx)
                /\ calls'[c].err # ErrTimeout
                /\ buffer' = buffer
                /\ enqueued' = enqueued)]_vars
    /\ [](\A c \in Callers :
            (calls[c].pc = "returned" /\ calls[c].err = ErrCanceled) => ctx = ErrCanceled)
    /\ [](\A c \in Callers : calls[c].pc = "parked" => calls[c].entries # <<>>)

\* C30 witness: with the channel full and the worker inside a delivery call, one
\* caller waiting to send was cancelled and has returned the context's error; the
\* channel is as full as it was and holds nothing of that call.
C30_Witness ==
    /\ ctx = ErrCanceled
    /\ runPc = "flushSize"
    /\ Len(buffer) = BufferCap
    /\ Len(enqueued) = BufferCap + cfg.BatchSize
    /\ submitted = Len(enqueued) + 1
    /\ \E c \in Callers : calls[c] = Returned(ErrCanceled)

\* The entries the worker has taken from the channel, in order: the channel is
\* first in, first out, so they are what was sent less what the channel holds.
Consumed == SubSeq(enqueued, 1, Len(enqueued) - Len(buffer))

\* The accumulator, while run has not handed it to a flush.
Pending == IF runPc \in {"select", "tick", "drain"} THEN entries ELSE <<>>

\* C31: an entry with an empty message is skipped, by the run loop and by the
\* shutdown drain alike: no batch handed to the Delivery Client and no
\* accumulator holds one, the batches and the accumulator are exactly the
\* entries with a message taken from the channel, in order, and a size-triggered
\* batch has BatchSize entries with a message (an empty one counts for nothing).
C31_EmptyMessageSkipped ==
    /\ \A i \in 1..Len(delivered) : \A j \in 1..Len(delivered[i].batch) :
          delivered[i].batch[j].Message # ""
    /\ \A j \in 1..Len(entries) : entries[j].Message # ""
    /\ enqueued = Consumed \o buffer
    /\ DeliveredEntries \o Pending = NonEmpty(Consumed)
    /\ \A i \in 1..Len(delivered) :
          delivered[i].trigger = "size" => Len(delivered[i].batch) = cfg.BatchSize
    /\ runPc = "select" => Len(entries) < cfg.BatchSize

\* C31 witness: of the sends "", m, m, "" the run loop took the first two (the
\* accumulator held the second at the shutdown signal, the channel the third),
\* the drain took the rest, and the final flush handed over the two entries with
\* a message.
C31_Witness ==
    /\ cfg.BatchSize = 2
    /\ runPc = "done"
    /\ buffer = <<>>
    /\ Len(enqueued) = 4
    /\ enqueued[1].Message = ""
    /\ enqueued[4].Message = ""
    /\ atShutdown.acc = <<enqueued[2]>>
    /\ atShutdown.chan = <<enqueued[3]>>
    /\ Batches = <<(<<enqueued[2], enqueued[3]>>)>>

\* C32: every call the Delivery Client receives has a non-empty batch and is made
\* at one of three moments: the accumulator has reached BatchSize with the entry
\* just received, a tick was received, or the drain at shutdown has ended; the
\* batch is the accumulator. A tick or a shutdown that finds the accumulator
\* empty makes no call, and an accumulator below BatchSize is handed over by a
\* tick or by the shutdown only.
C32_DeliversOnSizeTickOrShutdownOnly ==
    /\ [](\A i \in 1..Len(delivered) : delivered[i].batch # <<>>)
    /\ [][delivered' # delivered =>
            /\ delivered' = Append(delivered, Last(delivered'))
            /\ Last(delivered').batch = entries'
            /\ \/ /\ runPc = "select"
                  /\ Last(delivered').trigger = "size"
                  /\ entries' = Append(entries, Head(buffer))
                  /\ Len(entries') = cfg.BatchSize
               \/ /\ runPc = "tick"
                  /\ Last(delivered').trigger = "tick"
                  /\ entries' = entries
               \/ /\ runPc = "drain"
                  /\ ctx # "active"
                  /\ buffer = <<>>
                  /\ Last(delivered').trigger = "final"
                  /\ entries' = entries]_vars
    /\ [][(runPc = "tick" /\ entries = <<>>) => delivered' = delivered]_vars
    /\ [][(runPc = "drain" /\ entries = <<>> /\ buffer = <<>>) => delivered' = delivered]_vars
    /\ [][(Len(entries') < cfg.BatchSize /\ runPc' = "select") => delivered' = delivered]_vars

\* C32 witness: with BatchSize 2, one entry was handed over by a tick; after it
\* the shutdown found the accumulator and the channel empty and Run returned
\* without another call.
C32_Witness ==
    /\ cfg.BatchSize = 2
    /\ runPc = "done"
    /\ entries = <<>>
    /\ atShutdown = [acc |-> <<>>, chan |-> <<>>]
    /\ Len(delivered) = 1
    /\ delivered[1].trigger = "tick"
    /\ Len(delivered[1].batch) = 1
    /\ Len(enqueued) = 1

\* C33: no entry is handed to the Delivery Client twice: once a flush has
\* returned, with or without an error, the accumulator holds none of the entries
\* handed over, so a batch whose delivery failed is not handed over again.
C33_AtMostOneBatchPerEntry ==
    /\ \A i, j \in 1..Len(DeliveredEntries) :
          DeliveredEntries[i].seq = DeliveredEntries[j].seq => i = j
    /\ \A k \in 1..Len(Pending) : \A i \in 1..Len(DeliveredEntries) :
          Pending[k].seq # DeliveredEntries[i].seq
    /\ failures <= Len(delivered)

\* C33 witness: two delivery calls were made and both failed; the second batch
\* holds none of the entries of the first, and the accumulator is empty.
C33_Witness ==
    /\ Len(delivered) = 2
    /\ failures = 2
    /\ runPc = "select"
    /\ entries = <<>>
    /\ delivered[1].batch # <<>>
    /\ \A i \in 1..Len(delivered[1].batch) : \A j \in 1..Len(delivered[2].batch) :
          delivered[1].batch[i].seq # delivered[2].batch[j].seq

\* C36 (as claimed): no delivery call is made under the caller's context once it
\* is cancelled; after the cancellation the only call is the final flush under
\* shutdownCtx.
C36_NoDeliveryUnderCancelledCtx ==
    \A i \in 1..Len(delivered) :
        /\ ~delivered[i].cancelled
        /\ delivered[i].ctx = "ctx" => delivered[i].trigger \in {"size", "tick"}

\* C37: a call sends the entries of its slice in order, one per turn of its
\* loop; when it returns an error it stood at an entry it had not sent, and the
\* step changes neither the channel nor what was sent: the entries sent before
\* stay (they leave the channel only by the worker taking its head, and are
\* handed over in send order like any other), the entry the select stood at and
\* those after it are never sent. What a call has sent is a prefix of its slice.
C37_PartialFailureKeepsPrefix ==
    /\ [](\A c \in Callers :
            /\ calls[c].pc \in {"select", "parked"} =>
                  /\ calls[c].entries # <<>>
                  /\ calls[c].sent + Len(calls[c].entries) \in 1..MaxCallLen
            /\ (calls[c].pc = "returned" /\ calls[c].err # Nil) =>
                  calls[c].sent < MaxCallLen)
    /\ [][\A c \in Callers :
            (calls[c].pc \in {"select", "parked"} /\ calls'[c] # calls[c]) =>
               \/ /\ enqueued' = Append(enqueued,
                                        Entry(Head(calls[c].entries), Len(enqueued) + 1))
                  /\ Last(buffer') = Last(enqueued')
                  /\ calls'[c] = IF Len(calls[c].entries) = 1
                                 THEN Returned(Nil)
                                 ELSE [pc |-> "select",
                                       entries |-> Tail(calls[c].entries),
                                       err |-> Nil,
                                       sent |-> calls[c].sent + 1]
               \/ /\ calls'[c] = [calls[c] EXCEPT !.pc = "parked"]
                  /\ enqueued' = enqueued
                  /\ buffer' = buffer
               \/ /\ calls'[c] \in {Failed(calls[c], ErrTimeout), Failed(calls[c], ctx)}
                  /\ calls'[c].err # Nil
                  /\ enqueued' = enqueued
                  /\ buffer' = buffer]_vars
    /\ [][/\ IsPrefix(enqueued, enqueued')
          /\ IsPrefix(buffer, buffer') \/ (buffer # <<>> /\ IsPrefix(Tail(buffer), buffer'))]_vars
    /\ [](IsPrefix(DeliveredEntries, NonEmpty(enqueued)))

\* C37 witness: the only call made was given two entries; it sent the first,
\* which the worker has handed to the Delivery Client, and returned the timeout
\* error at the second, which was never sent.
C37_Witness ==
    /\ submitted = 2
    /\ \E c \in Callers :
          /\ calls[c] = [Failed(calls[c], ErrTimeout) EXCEPT !.sent = 1]
          /\ \A d \in Callers \ {c} : calls[d] = IdleCall
    /\ Len(enqueued) = 1
    /\ buffer = <<>>
    /\ Batches = <<enqueued>>

\* ========================================================== handler chain
\* Go objects live in `heap` and are named by their address, an index of it.
\* The nil slog.Handler.
NilHandler == 0
\* cfg.Output of the text handlers, and the APIClient of the exporting handler.
Stdout == 1
ApiClient == 2

\* The levels records are logged at, their messages, and the attribute keys
\* and group names loggers are derived with.
LogLevels == {"DEBUG", "INFO", "ERROR"}
Messages == {"msg"}
AttrKeys == {"k"}
GroupNames == {"g"}

\* slog.String(key, value) and slog.Group(key, attrs...): an Attr, its Value of
\* kind String or Group.
String(key, value) == [Key |-> key, Value |-> [Kind |-> "String", s |-> value]]
Group(key, attrs) == [Key |-> key, Value |-> [Kind |-> "Group", attrs |-> attrs]]

\* slog.LevelDebug, LevelInfo, LevelWarn, LevelError, and slog.Level(2), which
\* slog prints as INFO+2.
slogLevel(level) ==
    CASE level = "DEBUG" -> -4
      [] level = "INFO" -> 0
      [] level = "INFO+2" -> 2
      [] level = "WARN" -> 4
      [] level = "ERROR" -> 8

\* new(T): the object gets the next free address.
Alloc(hp, object) == [heap |-> Append(hp, object), addr |-> Len(hp) + 1]

\* NewTextHandler(cfg): a HandlerFunc, nothing is built until Register.
NewTextHandler(level) == [kind |-> "TextHandler", Level |-> level]

\* HandlerFunc(func(next) { return &customHandler{name, next} }).
NewCustomHandler(name) == [kind |-> "customHandler", name |-> name]

\* NewRateLimitHandler(cfg): a limiter and a counter per level, no next yet.
NewRateLimitHandler(hp, burst) ==
    LET limiters == Alloc(hp, [kind |-> "rt", burst |-> burst,
                               tokens |-> [l \in Levels |-> NewLimiter(burst)]])
        counters == Alloc(limiters.heap, [kind |-> "droppedLogsCounters",
                                          count |-> [l \in Levels |-> 0]])
    IN Alloc(counters.heap, [kind |-> "RateLimitHandler", next |-> NilHandler,
                             rt |-> limiters.addr,
                             droppedLogsCounters |-> counters.addr])

DefaultBufferSize == 1000

\* NewExportHandler(cfg) of export_handler.go: make(chan slog.Record, BufferSize).
NewExportHandler(hp, minLevel, bufferSize) ==
    LET size == IF bufferSize = 0 THEN DefaultBufferSize ELSE bufferSize
        ch == Alloc(hp, [kind |-> "chan", cap |-> size, buf |-> <<>>])
    IN Alloc(ch.heap, [kind |-> "ExportHandler", next |-> NilHandler,
                       cfg |-> [MinLevel |-> minLevel, BufferSize |-> size],
                       ch |-> ch.addr])

\* NewExportHandler(apiClient, cfg) of the exporting handler that calls the
\* APIClient itself.
NewApiExportHandler(hp, minLevel) ==
    Alloc(hp, [kind |-> "ApiExportHandler", cfg |-> [MinLevel |-> minLevel],
               next |-> NilHandler, apiClient |-> ApiClient,
               attrs |-> <<>>, groups |-> <<>>])

\* A pointer handed to New as a Handler.
Pointer(addr) == [kind |-> "pointer", addr |-> addr]

\* The program's setup code: builds the handlers of `stages`, one after the
\* other, and yields the arguments for New.
RECURSIVE construct(_, _)
construct(hp, stages) ==
    IF stages = <<>> THEN [heap |-> hp, handlers |-> <<>>]
    ELSE LET s == Head(stages)
             built ==
               CASE s.new = "NewTextHandler" ->
                      [heap |-> hp, handler |-> NewTextHandler(s.Level)]
                 [] s.new = "customHandler" ->
                      [heap |-> hp, handler |-> NewCustomHandler(s.name)]
                 [] s.new = "NewRateLimitHandler" ->
                      LET r == NewRateLimitHandler(hp, s.Burst)
                      IN [heap |-> r.heap, handler |-> Pointer(r.addr)]
                 [] s.new = "NewExportHandler" ->
                      LET r == NewExportHandler(hp, s.MinLevel, s.BufferSize)
                      IN [heap |-> r.heap, handler |-> Pointer(r.addr)]
                 [] s.new = "NewApiExportHandler" ->
                      LET r == NewApiExportHandler(hp, s.MinLevel)
                      IN [heap |-> r.heap, handler |-> Pointer(r.addr)]
             rest == construct(built.heap, Tail(stages))
         IN [heap |-> rest.heap, handlers |-> <<built.handler>> \o rest.handlers]

\* handler.Register(next). A HandlerFunc builds its handler: the text handler's
\* ignores next, the custom one keeps it. RateLimitHandler and ExportHandler
\* store next in themselves and return themselves.
RegisterHandler(hp, handler, next) ==
    CASE handler.kind = "TextHandler" ->
           Alloc(hp, [kind |-> "TextHandler", Level |-> handler.Level,
                      out |-> Stdout, attrs |-> <<>>, groups |-> <<>>])
      [] handler.kind = "customHandler" ->
           Alloc(hp, [kind |-> "customHandler", name |-> handler.name,
                      next |-> next])
      [] handler.kind = "pointer" ->
           [heap |-> [hp EXCEPT ![handler.addr].next = next], addr |-> handler.addr]

\* New with no handlers: a text handler at INFO.
DefaultHandlers == <<NewTextHandler("INFO")>>

\* faulty variant of chain: registers the handlers from the last to the first
RECURSIVE chainLastFirst(_, _, _)
chainLastFirst(hp, hs, slogHandler) ==
    IF hs = <<>> THEN [heap |-> hp, addr |-> slogHandler]
    ELSE LET r == RegisterHandler(hp, Last(hs), slogHandler)
         IN chainLastFirst(r.heap, SubSeq(hs, 1, Len(hs) - 1), r.addr)

\* New's loop: for _, handler := range handlers { slogHandler = handler.Register(slogHandler) }
RECURSIVE chain(_, _, _)
chain(hp, hs, slogHandler) ==
    IF hs = <<>> THEN [heap |-> hp, addr |-> slogHandler]
    ELSE LET r == RegisterHandler(hp, Head(hs), slogHandler)
         IN chain(r.heap, Tail(hs), r.addr)

\* logging.New(handlers...): the heap afterwards and the Logger's handler.
New(hp, hs) == chain(hp, IF hs = <<>> THEN DefaultHandlers ELSE hs, NilHandler)

\* ---- Enabled
\* A call that did not return: the run-time panic of a nil pointer dereference.
Panic(hp) == [panic |-> "nil pointer dereference", heap |-> hp]
Panics(r) == "panic" \in DOMAIN r

\* faulty variant of Enabled: the RateLimitHandler limits also when it has no next
RECURSIVE EnabledLimitsAlone(_, _, _)
EnabledLimitsAlone(hp, h, level) ==
    LET o == hp[h]
    IN CASE o.kind = "TextHandler" ->
              [ok |-> slogLevel(level) >= slogLevel(o.Level), heap |-> hp]
         [] o.kind = "customHandler" -> EnabledLimitsAlone(hp, o.next, level)
         [] o.kind \in {"ExportHandler", "ApiExportHandler"} ->
              IF o.next = NilHandler THEN [ok |-> TRUE, heap |-> hp]
              ELSE EnabledLimitsAlone(hp, o.next, level)
         [] o.kind = "RateLimitHandler" ->
              LET r == IF o.next = NilHandler THEN [ok |-> TRUE, heap |-> hp]
                       ELSE EnabledLimitsAlone(hp, o.next, level)
                  a == Allow(r.heap[o.rt].tokens[level])
              IN IF Panics(r) THEN r
                 ELSE IF ~r.ok THEN [ok |-> FALSE, heap |-> r.heap]
                 ELSE IF level \notin DOMAIN r.heap[o.rt].tokens THEN Panic(r.heap)
                 ELSE IF ~a.ok
                 THEN [ok |-> FALSE,
                       heap |-> [r.heap EXCEPT
                                   ![o.droppedLogsCounters].count[level] = @ + 1]]
                 ELSE [ok |-> TRUE,
                       heap |-> [r.heap EXCEPT ![o.rt].tokens[level] = a.tokens]]

\* faulty variant of Enabled: the RateLimitHandler takes its token before it asks next
RECURSIVE EnabledAllowFirst(_, _, _)
EnabledAllowFirst(hp, h, level) ==
    LET o == hp[h]
    IN CASE o.kind = "TextHandler" ->
              [ok |-> slogLevel(level) >= slogLevel(o.Level), heap |-> hp]
         [] o.kind = "customHandler" -> EnabledAllowFirst(hp, o.next, level)
         [] o.kind \in {"ExportHandler", "ApiExportHandler"} ->
              IF o.next = NilHandler THEN [ok |-> TRUE, heap |-> hp]
              ELSE EnabledAllowFirst(hp, o.next, level)
         [] o.kind = "RateLimitHandler" ->
              IF o.next = NilHandler THEN [ok |-> TRUE, heap |-> hp]
              ELSE LET a == Allow(hp[o.rt].tokens[level])
                       taken == [hp EXCEPT ![o.rt].tokens[level] = a.tokens]
                       r == EnabledAllowFirst(taken, o.next, level)
                   IN IF level \notin DOMAIN hp[o.rt].tokens THEN Panic(hp)
                      ELSE IF ~a.ok
                      THEN [ok |-> FALSE,
                            heap |-> [hp EXCEPT ![o.droppedLogsCounters].count[level] = @ + 1]]
                      ELSE [ok |-> r.ok, heap |-> r.heap]

\* h.Enabled(ctx, level): what it returns and the heap it leaves. h.rt and
\* h.droppedLogsCounters have the four named levels as keys: for another level
\* h.rt[level] is a nil *rate.Limiter, and Allow() on it panics.
RECURSIVE Enabled(_, _, _)
Enabled(hp, h, level) ==
    LET o == hp[h]
    IN CASE o.kind = "TextHandler" ->
              [ok |-> slogLevel(level) >= slogLevel(o.Level), heap |-> hp]
         [] o.kind = "customHandler" -> Enabled(hp, o.next, level)
         [] o.kind \in {"ExportHandler", "ApiExportHandler"} ->
              IF o.next = NilHandler THEN [ok |-> TRUE, heap |-> hp]
              ELSE Enabled(hp, o.next, level)
         [] o.kind = "RateLimitHandler" ->
              IF o.next = NilHandler THEN [ok |-> TRUE, heap |-> hp]
              ELSE LET r == Enabled(hp, o.next, level)
                       a == Allow(r.heap[o.rt].tokens[level])
                   IN IF Panics(r) THEN r
                      ELSE IF ~r.ok THEN [ok |-> FALSE, heap |-> r.heap]
                      ELSE IF level \notin DOMAIN r.heap[o.rt].tokens THEN Panic(r.heap)
                      ELSE IF ~a.ok
                      THEN [ok |-> FALSE,
                            heap |-> [r.heap EXCEPT
                                        ![o.droppedLogsCounters].count[level] = @ + 1]]
                      ELSE [ok |-> TRUE,
                            heap |-> [r.heap EXCEPT ![o.rt].tokens[level] = a.tokens]]

\* ---- Handle
\* faulty variant of prefix: the group names are joined without the dot
RECURSIVE prefixNoDot(_)
prefixNoDot(groups) ==
    IF groups = <<>> THEN "" ELSE Head(groups) \o prefixNoDot(Tail(groups))

\* The prefix addAttrToMap puts before a key under `groups`: "g1.g2.".
RECURSIVE prefix(_)
prefix(groups) ==
    IF groups = <<>> THEN "" ELSE Head(groups) \o "." \o prefix(Tail(groups))

\* mapSlogLevel(level)
mapSlogLevel(level) ==
    CASE slogLevel(level) >= slogLevel("ERROR") -> "LogLevelLOGLEVELERROR"
      [] slogLevel(level) >= slogLevel("WARN") -> "LogLevelLOGLEVELWARNING"
      [] slogLevel(level) >= slogLevel("INFO") -> "LogLevelLOGLEVELINFO"
      [] slogLevel(level) >= slogLevel("DEBUG") -> "LogLevelLOGLEVELDEBUG"
      [] OTHER -> "LogLevelLOGLEVELUNKNOWN"

\* m[key] = value on a map[string]string (a function from its keys).
Put(m, key, value) ==
    [x \in DOMAIN m \cup {key} |-> IF x = key THEN value ELSE m[x]]

\* addAttrToMap(m, attr, groups): the map afterwards. A String value is stored
\* under the groups' prefix followed by the key; for a Group value each of its
\* attributes is added under append(groups, key), key being the prefixed key.
\* addAttrsToMap is the range loop over a list of attributes.
RECURSIVE addAttrToMap(_, _, _), addAttrsToMap(_, _, _)
addAttrToMap(m, attr, groups) ==
    LET key == IF Len(groups) > 0 THEN prefix(groups) \o attr.Key ELSE attr.Key
    IN CASE attr.Value.Kind = "String" -> Put(m, key, attr.Value.s)
         [] attr.Value.Kind = "Group" ->
              addAttrsToMap(m, attr.Value.attrs, Append(groups, key))
addAttrsToMap(m, attrs, groups) ==
    IF attrs = <<>> THEN m
    ELSE addAttrsToMap(addAttrToMap(m, Head(attrs), groups), Tail(attrs), groups)

\* faulty variant of fieldsM: the handler's attributes are added after the record's
fieldsMHandlerLast(o, record) ==
    addAttrsToMap(addAttrsToMap(<<>>, record.Attrs, o.groups), o.attrs, o.groups)

\* fieldsM of ingestLogs: the handler's attributes, then the record's, all under
\* the handler's groups.
fieldsM(o, record) ==
    addAttrsToMap(addAttrsToMap(<<>>, o.attrs, o.groups), record.Attrs, o.groups)

\* ApiExportHandler.ingestLogs(record): one Entry for the APIClient, with the
\* fields of the handler's and the record's attributes; a record without a
\* message is skipped.
ingestLogs(hp, o, record) ==
    IF record.Message = "" THEN hp
    ELSE [hp EXCEPT ![o.apiClient].entries =
            Append(@, [Level |-> mapSlogLevel(record.Level),
                       Message |-> record.Message,
                       Time |-> record.Time,
                       Fields |-> fieldsM(o, record)])]

\* faulty variant of send: a full channel gives up its oldest record
sendEvictingOldest(hp, ch, record) ==
    IF Len(hp[ch].buf) < hp[ch].cap
    THEN [hp EXCEPT ![ch].buf = Append(@, record)]
    ELSE [hp EXCEPT ![ch].buf = Append(Tail(@), record)]

\* select { case h.ch <- record: default: }
send(hp, ch, record) ==
    IF Len(hp[ch].buf) < hp[ch].cap
    THEN [hp EXCEPT ![ch].buf = Append(@, record)]
    ELSE hp

\* h.Handle(ctx, record). `st` is the heap together with two histories of the
\* call: `path`, the handlers it went through, and `seen`, for each
\* ExportHandler on the way how many records its channel held.
RECURSIVE Handle(_, _, _)
Handle(st, h, record) ==
    LET o == st.heap[h]
        at == [st EXCEPT !.path = Append(@, h)]
    IN CASE o.kind = "TextHandler" ->
              [at EXCEPT !.heap[o.out].lines =
                 Append(@, [level |-> record.Level, msg |-> record.Message,
                            attrs |-> o.attrs])]
         [] o.kind = "customHandler" ->
              Handle(at, o.next, [record EXCEPT !.Message = @ \o " " \o o.name])
         [] o.kind = "RateLimitHandler" ->
              IF o.next = NilHandler THEN at ELSE Handle(at, o.next, record)
         [] o.kind = "ExportHandler" ->
              LET exported ==
                    [at EXCEPT
                       !.heap = IF slogLevel(record.Level) >= slogLevel(o.cfg.MinLevel)
                                THEN send(@, o.ch, record) ELSE @,
                       !.seen = Append(@, [h |-> h, len |-> Len(st.heap[o.ch].buf)])]
              IN IF o.next = NilHandler THEN exported
                 ELSE Handle(exported, o.next, record)
         [] o.kind = "ApiExportHandler" ->
              LET exported ==
                    [at EXCEPT
                       !.heap = IF slogLevel(record.Level) >= slogLevel(o.cfg.MinLevel)
                                THEN ingestLogs(@, o, record) ELSE @]
              IN IF o.next = NilHandler THEN exported
                 ELSE Handle(exported, o.next, record)

\* ---- WithAttrs, WithGroup
\* faulty variant of WithAttrs: the RateLimitHandler's clone gets limiters of its own
RECURSIVE WithAttrsOwnLimiters(_, _, _)
WithAttrsOwnLimiters(hp, h, attr) ==
    LET o == hp[h]
        none == [heap |-> hp, addr |-> NilHandler]
    IN CASE o.kind = "TextHandler" ->
              Alloc(hp, [o EXCEPT !.attrs = Append(@, prefix(o.groups) \o attr.Key)])
         [] o.kind = "customHandler" -> WithAttrsOwnLimiters(hp, o.next, attr)
         [] o.kind = "RateLimitHandler" ->
              LET n == IF o.next # NilHandler
                       THEN WithAttrsOwnLimiters(hp, o.next, attr) ELSE none
                  limiters == Alloc(n.heap, n.heap[o.rt])
              IN Alloc(limiters.heap,
                       [kind |-> "RateLimitHandler", rt |-> limiters.addr,
                        droppedLogsCounters |-> o.droppedLogsCounters,
                        next |-> n.addr])
         [] o.kind = "ExportHandler" ->
              LET n == IF o.next # NilHandler
                       THEN WithAttrsOwnLimiters(hp, o.next, attr) ELSE none
              IN Alloc(n.heap, [kind |-> "ExportHandler", cfg |-> o.cfg,
                                ch |-> o.ch, next |-> n.addr])
         [] o.kind = "ApiExportHandler" ->
              LET n == IF o.next # NilHandler
                       THEN WithAttrsOwnLimiters(hp, o.next, attr) ELSE none
              IN Alloc(n.heap, [kind |-> "ApiExportHandler", cfg |-> o.cfg,
                                apiClient |-> o.apiClient,
                                attrs |-> o.attrs \o <<attr>>,
                                groups |-> o.groups, next |-> n.addr])

\* h.WithAttrs(attrs): the heap with the new handlers, and the address of the
\* handler returned. The text handler keeps the attribute under the groups open
\* so far; customHandler returns what its next returns.
RECURSIVE WithAttrs(_, _, _)
WithAttrs(hp, h, attr) ==
    LET o == hp[h]
        none == [heap |-> hp, addr |-> NilHandler]
    IN CASE o.kind = "TextHandler" ->
              Alloc(hp, [o EXCEPT !.attrs = Append(@, prefix(o.groups) \o attr.Key)])
         [] o.kind = "customHandler" -> WithAttrs(hp, o.next, attr)
         [] o.kind = "RateLimitHandler" ->
              LET n == IF o.next # NilHandler THEN WithAttrs(hp, o.next, attr) ELSE none
              IN Alloc(n.heap, [kind |-> "RateLimitHandler", rt |-> o.rt,
                                droppedLogsCounters |-> o.droppedLogsCounters,
                                next |-> n.addr])
         [] o.kind = "ExportHandler" ->
              LET n == IF o.next # NilHandler THEN WithAttrs(hp, o.next, attr) ELSE none
              IN Alloc(n.heap, [kind |-> "ExportHandler", cfg |-> o.cfg,
                                ch |-> o.ch, next |-> n.addr])
         [] o.kind = "ApiExportHandler" ->
              LET n == IF o.next # NilHandler THEN WithAttrs(hp, o.next, attr) ELSE none
              IN Alloc(n.heap, [kind |-> "ApiExportHandler", cfg |-> o.cfg,
                                apiClient |-> o.apiClient,
                                attrs |-> o.attrs \o <<attr>>,
                                groups |-> o.groups, next |-> n.addr])

\* faulty variant of WithGroup: the ApiExportHandler appends the name to its own
\* groups slice and hands that slice to the clone
RECURSIVE WithGroupInPlace(_, _, _)
WithGroupInPlace(hp, h, name) ==
    LET o == hp[h]
        none == [heap |-> hp, addr |-> NilHandler]
    IN CASE o.kind = "TextHandler" ->
              Alloc(hp, [o EXCEPT !.groups = Append(@, name)])
         [] o.kind = "customHandler" -> WithGroupInPlace(hp, o.next, name)
         [] o.kind = "RateLimitHandler" ->
              LET n == IF o.next # NilHandler
                       THEN WithGroupInPlace(hp, o.next, name) ELSE none
              IN Alloc(n.heap, [kind |-> "RateLimitHandler", rt |-> o.rt,
                                droppedLogsCounters |-> o.droppedLogsCounters,
                                next |-> n.addr])
         [] o.kind = "ExportHandler" ->
              LET n == IF o.next # NilHandler
                       THEN WithGroupInPlace(hp, o.next, name) ELSE none
              IN Alloc(n.heap, [kind |-> "ExportHandler", cfg |-> o.cfg,
                                ch |-> o.ch, next |-> n.addr])
         [] o.kind = "ApiExportHandler" ->
              LET n == IF o.next # NilHandler
                       THEN WithGroupInPlace(hp, o.next, name) ELSE none
                  grown == [n.heap EXCEPT ![h].groups = Append(@, name)]
              IN Alloc(grown, [kind |-> "ApiExportHandler", cfg |-> o.cfg,
                               apiClient |-> o.apiClient, attrs |-> o.attrs,
                               groups |-> grown[h].groups, next |-> n.addr])

\* faulty variant of WithGroup: the ExportHandler's clone gets a channel of its own
RECURSIVE WithGroupUnshared(_, _, _)
WithGroupUnshared(hp, h, name) ==
    LET o == hp[h]
        none == [heap |-> hp, addr |-> NilHandler]
    IN CASE o.kind = "TextHandler" ->
              Alloc(hp, [o EXCEPT !.groups = Append(@, name)])
         [] o.kind = "customHandler" -> WithGroupUnshared(hp, o.next, name)
         [] o.kind = "RateLimitHandler" ->
              LET n == IF o.next # NilHandler
                       THEN WithGroupUnshared(hp, o.next, name) ELSE none
              IN Alloc(n.heap, [kind |-> "RateLimitHandler", rt |-> o.rt,
                                droppedLogsCounters |-> o.droppedLogsCounters,
                                next |-> n.addr])
         [] o.kind = "ExportHandler" ->
              LET n == IF o.next # NilHandler
                       THEN WithGroupUnshared(hp, o.next, name) ELSE none
                  ch == Alloc(n.heap, [kind |-> "chan", cap |-> o.cfg.BufferSize,
                                       buf |-> <<>>])
              IN Alloc(ch.heap, [kind |-> "ExportHandler", cfg |-> o.cfg,
                                 ch |-> ch.addr, next |-> n.addr])
         [] o.kind = "ApiExportHandler" ->
              LET n == IF o.next # NilHandler
                       THEN WithGroupUnshared(hp, o.next, name) ELSE none
              IN Alloc(n.heap, [kind |-> "ApiExportHandler", cfg |-> o.cfg,
                                apiClient |-> o.apiClient, attrs |-> o.attrs,
                                groups |-> Append(o.groups, name), next |-> n.addr])

\* h.WithGroup(name)
RECURSIVE WithGroup(_, _, _)
WithGroup(hp, h, name) ==
    LET o == hp[h]
        none == [heap |-> hp, addr |-> NilHandler]
    IN CASE o.kind = "TextHandler" ->
              Alloc(hp, [o EXCEPT !.groups = Append(@, name)])
         [] o.kind = "customHandler" -> WithGroup(hp, o.next, name)
         [] o.kind = "RateLimitHandler" ->
              LET n == IF o.next # NilHandler THEN WithGroup(hp, o.next, name) ELSE none
              IN Alloc(n.heap, [kind |-> "RateLimitHandler", rt |-> o.rt,
                                droppedLogsCounters |-> o.droppedLogsCounters,
                                next |-> n.addr])
         [] o.kind = "ExportHandler" ->
              LET n == IF o.next # NilHandler THEN WithGroup(hp, o.next, name) ELSE none
              IN Alloc(n.heap, [kind |-> "ExportHandler", cfg |-> o.cfg,
                                ch |-> o.ch, next |-> n.addr])
         [] o.kind = "ApiExportHandler" ->
              LET n == IF o.next # NilHandler THEN WithGroup(hp, o.next, name) ELSE none
              IN Alloc(n.heap, [kind |-> "ApiExportHandler", cfg |-> o.cfg,
                                apiClient |-> o.apiClient, attrs |-> o.attrs,
                                groups |-> Append(o.groups, name), next |-> n.addr])

\* ---- the program
\* The handler lists a program gives to New: none, the chain of the
\* "chain handlers" test, a text handler that is not the first, the chain of
\* the example (text, export, rate limit), an ExportHandler alone, and a text
\* handler with the handler that exports through the APIClient.
Text(level) == [new |-> "NewTextHandler", Level |-> level]
Custom(name) == [new |-> "customHandler", name |-> name]
StageLists ==
    {<<>>,
     <<Text("DEBUG"), Custom("custom 1"), Custom("custom 2"), Custom("custom 3")>>,
     <<Custom("custom 1"), Text("DEBUG"), Custom("custom 2")>>}
    \cup {<<Text("INFO"),
            [new |-> "NewExportHandler", MinLevel |-> "WARN", BufferSize |-> c[1]],
            [new |-> "NewRateLimitHandler", Burst |-> c[2]]>> :
            c \in ({1} \X (1..MaxBurst)) \cup ((1..MaxBufferSize) \X {1})}
    \cup {<<[new |-> "NewExportHandler", MinLevel |-> m, BufferSize |-> n]>> :
            m \in {"INFO", "WARN"}, n \in {0, MaxBufferSize}}
    \cup {<<Text("INFO"), [new |-> "NewApiExportHandler", MinLevel |-> m]>> :
            m \in {"INFO", "WARN"}}
    \cup {<<[new |-> "NewRateLimitHandler", Burst |-> 1]>>,
          <<[new |-> "NewRateLimitHandler", Burst |-> 1],
            [new |-> "NewExportHandler", MinLevel |-> "WARN", BufferSize |-> 1]>>}

\* The writer and the APIClient exist before the handlers are built.
EmptyHeap == <<[kind |-> "Writer", lines |-> <<>>],
               [kind |-> "APIClient", entries |-> <<>>]>>

\* The handlers are built, and New has returned the Logger.
ChainInit ==
    \E stages \in StageLists :
        LET built == construct(EmptyHeap, stages)
            log == New(built.heap, built.handlers)
        IN /\ handlers = built.handlers
           /\ heap = log.heap
           /\ loggers = <<log.addr>>
           /\ trace = <<>>

\* The Handle calls made so far, and the calls made on the loggers so far.
Handled == SelectSeq(trace, LAMBDA e : e.op = "Handle")
Calls == SelectSeq(trace, LAMBDA e : e.op \in {"Handle", "refused", "IsEnabled"})

\* No call has panicked: the program is still running.
Running == \A k \in DOMAIN trace : trace[k].op = "IsEnabled" => trace[k].ret # "panic"

\* slog.NewRecord(time.Now(), lvl, msg, pc): the clock is the count of records.
NewRecord(level, msg) ==
    [Level |-> level, Message |-> msg, Time |-> Len(Handled) + 1, Attrs |-> <<>>]

\* The history entries of a Handle call and of a doLog call that Enabled refused.
HandleCall(h, record, st) ==
    [op |-> "Handle", h |-> h, record |-> record, path |-> st.path, seen |-> st.seen]
RefusedCall(h, level) == [op |-> "refused", h |-> h, level |-> level]

\* Logger.doLog(lvl, msg) on the i-th logger: nothing more when Enabled refuses,
\* else a record is made and handled.
doLog(i, level, msg) ==
    LET h == loggers[i]
        e == Enabled(heap, h, level)
        record == NewRecord(level, msg)
        st == Handle([heap |-> e.heap, path |-> <<>>, seen |-> <<>>], h, record)
    IN /\ Running
       /\ Len(Calls) < MaxLogs
       /\ IF ~e.ok
          THEN /\ heap' = e.heap
               /\ trace' = Append(trace, RefusedCall(h, level))
          ELSE /\ heap' = st.heap
               /\ trace' = Append(trace, HandleCall(h, record, st))
       /\ UNCHANGED <<loggers, handlers, batchVars, apiVars, rlVars>>

\* log.Log.Handler().Handle(ctx, record): the handler is called directly, as
\* the text handler's test does; Enabled is not asked.
HandleDirect(i, level, msg) ==
    LET h == loggers[i]
        record == NewRecord(level, msg)
        st == Handle([heap |-> heap, path |-> <<>>, seen |-> <<>>], h, record)
    IN /\ Running
       /\ Len(Calls) < MaxLogs
       /\ heap' = st.heap
       /\ trace' = Append(trace, HandleCall(h, record, st))
       /\ UNCHANGED <<loggers, handlers, batchVars, apiVars, rlVars>>

\* The levels Logger.IsEnabled is asked about: one between info and warn.
ProbeLevels == {"INFO+2"}

\* Logger.IsEnabled(lvl) on the i-th logger: l.Log.Handler().Enabled(ctx, lvl).
\* It returns what Enabled returns, or the call panics and the program ends.
IsEnabled(i, level) ==
    LET h == loggers[i]
        e == Enabled(heap, h, level)
        ret == IF Panics(e) THEN "panic" ELSE IF e.ok THEN "true" ELSE "false"
    IN /\ Running
       /\ Len(Calls) < MaxLogs
       /\ heap' = e.heap
       /\ trace' = Append(trace, [op |-> "IsEnabled", h |-> h, level |-> level,
                                  ret |-> ret])
       /\ UNCHANGED <<loggers, handlers, batchVars, apiVars, rlVars>>

\* Logger.WithField(k, v): a Logger on l.Log.Handler().WithAttrs(...).
With(i, attr) ==
    LET r == WithAttrs(heap, loggers[i], String(attr, "v"))
    IN /\ Running
       /\ Len(loggers) <= MaxDerived
       /\ heap' = r.heap
       /\ loggers' = Append(loggers, r.addr)
       /\ UNCHANGED <<handlers, trace, batchVars, apiVars, rlVars>>

\* Logger.WithGroup(name): a Logger on l.Log.Handler().WithGroup(name).
LoggerWithGroup(i, name) ==
    LET r == WithGroup(heap, loggers[i], name)
    IN /\ Running
       /\ Len(loggers) <= MaxDerived
       /\ heap' = r.heap
       /\ loggers' = Append(loggers, r.addr)
       /\ UNCHANGED <<handlers, trace, batchVars, apiVars, rlVars>>

\* The channels of the heap.
Channels == {a \in DOMAIN heap : heap[a].kind = "chan"}

\* faulty variant of RecordsReceive: the consumer is given the newest record
RecordsReceiveNewest ==
    \E ch \in Channels :
        /\ Running
        /\ heap[ch].buf # <<>>
        /\ heap' = [heap EXCEPT ![ch].buf = SubSeq(@, 1, Len(@) - 1)]
        /\ trace' = Append(trace, [op |-> "receive", ch |-> ch,
                                   record |-> Last(heap[ch].buf)])
        /\ UNCHANGED <<loggers, handlers, batchVars, apiVars, rlVars>>

\* <-exportHandler.Records(): the consumer takes the oldest record.
RecordsReceive ==
    \E ch \in Channels :
        /\ Running
        /\ heap[ch].buf # <<>>
        /\ heap' = [heap EXCEPT ![ch].buf = Tail(@)]
        /\ trace' = Append(trace, [op |-> "receive", ch |-> ch,
                                   record |-> Head(heap[ch].buf)])
        /\ UNCHANGED <<loggers, handlers, batchVars, apiVars, rlVars>>

\* The refill interval passes: every limiter that is not full gains a token.
Refill ==
    LET refilled ==
          [a \in DOMAIN heap |->
             IF heap[a].kind = "rt"
             THEN [heap[a] EXCEPT !.tokens =
                     [l \in Levels |-> Min(@[l] + RefillSteps, NewLimiter(heap[a].burst))]]
             ELSE heap[a]]
    IN /\ Running
       /\ refilled # heap
       /\ heap' = refilled
       /\ UNCHANGED <<loggers, handlers, trace, batchVars, apiVars, rlVars>>

ChainNext ==
    \/ \E i \in DOMAIN loggers, level \in LogLevels, msg \in Messages :
          \/ doLog(i, level, msg)
          \/ HandleDirect(i, level, msg)
    \/ \E i \in DOMAIN loggers, level \in ProbeLevels : IsEnabled(i, level)
    \/ \E i \in DOMAIN loggers, attr \in AttrKeys : With(i, attr)
    \/ \E i \in DOMAIN loggers, name \in GroupNames : LoggerWithGroup(i, name)
    \/ RecordsReceive
    \/ Refill

ChainStart == ChainInit /\ BatchIdle /\ ApiIdle /\ RlIdle

ChainSpec == ChainStart /\ [][ChainNext]_vars

\* ---- the exporting handler on its own
\* New(NewExportHandler(apiClient, cfg)) alone, the handlers derived from it one
\* after the other with WithGroup and WithAttrs, and records handed to Handle
\* with attributes of their own.
ScopeNames == {"g1", "g2"}
BoundAttrs == {String("a", "bound"), Group("inner", <<String("k", "v")>>)}
RecordAttrs ==
    {<<>>,
     <<String("a", "own")>>,
     <<String("k2", "v2")>>,
     <<Group("inner", <<String("k", "v")>>)>>,
     <<Group("outer", <<Group("inner", <<String("k", "v")>>)>>)>>}

FlattenInit ==
    LET built == construct(EmptyHeap,
                           <<[new |-> "NewApiExportHandler", MinLevel |-> "INFO"]>>)
        log == New(built.heap, built.handlers)
    IN /\ handlers = built.handlers
       /\ heap = log.heap
       /\ loggers = <<log.addr>>
       /\ trace = <<>>

\* h.WithAttrs([]slog.Attr{attr}) on the handler derived last.
ExportWithAttrs(attr) ==
    LET r == WithAttrs(heap, Last(loggers), attr)
    IN /\ Len(loggers) <= MaxScopes
       /\ heap' = r.heap
       /\ loggers' = Append(loggers, r.addr)
       /\ UNCHANGED <<handlers, trace, batchVars, apiVars, rlVars>>

\* h.WithGroup(name) on the handler derived last.
ExportWithGroup(name) ==
    LET r == WithGroup(heap, Last(loggers), name)
    IN /\ Len(loggers) <= MaxScopes
       /\ heap' = r.heap
       /\ loggers' = Append(loggers, r.addr)
       /\ UNCHANGED <<handlers, trace, batchVars, apiVars, rlVars>>

\* h.Handle(ctx, record) on the handler derived last, the record at INFO and
\* carrying `attrs` (record.AddAttrs).
ExportHandle(attrs) ==
    LET h == Last(loggers)
        record == [NewRecord("INFO", "msg") EXCEPT !.Attrs = attrs]
        st == Handle([heap |-> heap, path |-> <<>>, seen |-> <<>>], h, record)
    IN /\ Len(Calls) < MaxLogs
       /\ heap' = st.heap
       /\ trace' = Append(trace, HandleCall(h, record, st))
       /\ UNCHANGED <<loggers, handlers, batchVars, apiVars, rlVars>>

FlattenNext ==
    \/ \E attr \in BoundAttrs : ExportWithAttrs(attr)
    \/ \E name \in ScopeNames : ExportWithGroup(name)
    \/ \E attrs \in RecordAttrs : ExportHandle(attrs)

FlattenStart == FlattenInit /\ BatchIdle /\ ApiIdle /\ RlIdle

FlattenSpec == FlattenStart /\ [][FlattenNext]_vars

\* ---------------------------------------------------------------- claims
\* The RateLimitHandlers of a heap, and the first one built: the original.
RateLimitHandlers(hp) == {a \in DOMAIN hp : hp[a].kind = "RateLimitHandler"}
Original(S) == CHOOSE a \in S : \A b \in S : a <= b

\* C22: the handlers derived from a RateLimitHandler with WithAttrs and
\* WithGroup use the original's limiters and drop counters, not copies: there is
\* one limiter map and one counter map, every handler of the family points to
\* them, and so whatever an Enabled call through any logger of the family leaves
\* in the buckets and the counters is what every handler of the family finds.
C22_DerivedShareLimitersAndCounters ==
    LET family == RateLimitHandlers(heap)
    IN family # {} =>
         /\ Cardinality({a \in DOMAIN heap : heap[a].kind = "rt"}) = 1
         /\ Cardinality({a \in DOMAIN heap : heap[a].kind = "droppedLogsCounters"}) = 1
         /\ \A a \in family :
              /\ heap[a].rt = heap[Original(family)].rt
              /\ heap[a].droppedLogsCounters = heap[Original(family)].droppedLogsCounters
         /\ \A i \in DOMAIN loggers, level \in LogLevels :
              LET after == Enabled(heap, loggers[i], level).heap
              IN \A a \in family :
                   /\ after[after[a].rt] = after[after[Original(family)].rt]
                   /\ after[after[a].droppedLogsCounters]
                        = after[after[Original(family)].droppedLogsCounters]

\* A logger and a logger derived from it, a bucket of one token: a record went
\* through the derived handler, and the next call at that level, made on the
\* first logger, was refused and counted: both handlers find the bucket empty
\* and the counter at one.
C22_Witness ==
    LET family == RateLimitHandlers(heap)
    IN /\ Cardinality(family) = 2
       /\ Len(loggers) = 2
       /\ loggers[1] = Original(family)
       /\ heap[heap[loggers[1]].rt].burst = 1
       /\ Len(trace) = 2
       /\ trace[1].op = "Handle"
       /\ trace[1].h = loggers[2]
       /\ trace[1].record.Level = "ERROR"
       /\ trace[2] = RefusedCall(loggers[1], "ERROR")
       /\ \A i \in DOMAIN loggers :
            /\ heap[heap[loggers[i]].rt].tokens["ERROR"] = 0
            /\ heap[heap[loggers[i]].droppedLogsCounters].count["ERROR"] = 1

\* The handler is an ExportHandler whose MinLevel the record reaches.
Exports(hp, h, record) ==
    /\ hp[h].kind = "ExportHandler"
    /\ slogLevel(record.Level) >= slogLevel(hp[h].cfg.MinLevel)

\* The line a text handler writes for a record.
Line(hp, t, record) ==
    [level |-> record.Level, msg |-> record.Message, attrs |-> hp[t].attrs]

\* C23: a Handle call that takes a record at or above MinLevel through an
\* ExportHandler whose channel holds cap records leaves the channel's content as
\* it was, goes on to the handler's next (when it has one) and, where the chain
\* ends in a text handler, has the record written; and the call is never held
\* up: with a full channel, Handle on any logger can still be made and returns.
C23_FullQueueDropsAndForwards ==
    /\ [][(trace' # trace /\ Last(trace').op = "Handle") =>
            LET e == Last(trace')
            IN \A j \in DOMAIN e.path :
                 LET h == e.path[j]
                     ch == heap[h].ch
                 IN (/\ Exports(heap, h, e.record)
                     /\ Len(heap[ch].buf) = heap[ch].cap)
                    => /\ heap'[ch].buf = heap[ch].buf
                       /\ heap[h].next # NilHandler =>
                            /\ j < Len(e.path)
                            /\ e.path[j + 1] = heap[h].next
                       /\ heap[Last(e.path)].kind = "TextHandler" =>
                            heap'[Stdout].lines =
                              Append(heap[Stdout].lines,
                                     Line(heap, Last(e.path), e.record))]_vars
    /\ [](\A i \in DOMAIN loggers :
            (/\ Running
             /\ Len(Calls) < MaxLogs
             /\ \E ch \in Channels : Len(heap[ch].buf) = heap[ch].cap)
            => ENABLED HandleDirect(i, "ERROR", "msg"))

\* A channel of one record is full; a second record at ERROR was logged through
\* the rate limiter, the ExportHandler and the text handler: it is not in the
\* channel and it was written.
C23_Witness ==
    /\ Len(Handled) = 2
    /\ \E ch \in Channels :
         /\ heap[ch].cap = 1
         /\ heap[ch].buf = <<Handled[1].record>>
    /\ Handled[2].record.Level = "ERROR"
    /\ Handled[2].seen # <<>>
    /\ Handled[2].seen[1].len = 1
    /\ Len(Handled[2].path) = 3
    /\ Len(heap[Stdout].lines) = 2

\* The records of a sequence of history entries.
RECURSIVE RecordsOf(_)
RecordsOf(es) == IF es = <<>> THEN <<>> ELSE <<Head(es).record>> \o RecordsOf(Tail(es))

\* The records received from channel ch so far, and the records handled so far
\* that reached the MinLevel of an ExportHandler on ch while ch held fewer than
\* cap records.
Received(ch) == RecordsOf(SelectSeq(trace, LAMBDA e : e.op = "receive" /\ e.ch = ch))
HandledWithSpace(ch) ==
    RecordsOf(SelectSeq(Handled, LAMBDA e :
        \E k \in DOMAIN e.seen :
            /\ heap[e.seen[k].h].ch = ch
            /\ Exports(heap, e.seen[k].h, e.record)
            /\ e.seen[k].len < heap[ch].cap))

\* C24: at any moment, the records received from Records() so far followed by
\* the records still in the channel are exactly the records at or above
\* MinLevel that were handled while the channel had room, in the order they
\* were handled; so no record below MinLevel is in the channel or was received.
C24_RecordsAreTheAcceptedInOrder ==
    \A ch \in Channels :
        /\ Received(ch) \o heap[ch].buf = HandledWithSpace(ch)
        /\ Len(heap[ch].buf) <= heap[ch].cap
        /\ \A k \in DOMAIN HandledWithSpace(ch) :
             \E h \in DOMAIN heap :
                /\ heap[h].kind = "ExportHandler"
                /\ heap[h].ch = ch
                /\ slogLevel(HandledWithSpace(ch)[k].Level) >= slogLevel(heap[h].cfg.MinLevel)

\* MinLevel WARN, a channel of two: a record at INFO and then one at ERROR were
\* handled, and the consumer received the second one only.
C24_Witness ==
    /\ Len(Handled) = 2
    /\ Handled[1].record.Level = "INFO"
    /\ Handled[1].seen # <<>>
    /\ heap[Handled[1].seen[1].h].cfg = [MinLevel |-> "WARN", BufferSize |-> 2]
    /\ Handled[2].record.Level = "ERROR"
    /\ \E ch \in Channels :
         /\ Received(ch) = <<Handled[2].record>>
         /\ heap[ch].buf = <<>>

\* The ExportHandlers of a heap; the first one built is the original, the one
\* the program calls Records() on.
ExportHandlers(hp) == {a \in DOMAIN hp : hp[a].kind = "ExportHandler"}

\* C25: the handlers derived from an ExportHandler with WithAttrs and WithGroup
\* have the original's channel and cfg, and no other channel exists; a record
\* at or above MinLevel handled through any handler of the family is appended to
\* the original's channel when that channel holds fewer than cap records, and
\* leaves it as it was otherwise: the capacity bounds what all of them have
\* enqueued together.
C25_DerivedShareTheQueue ==
    /\ [](LET family == ExportHandlers(heap)
          IN family # {} =>
               /\ Channels = {heap[Original(family)].ch}
               /\ \A h \in family :
                    /\ heap[h].ch = heap[Original(family)].ch
                    /\ heap[h].cfg = heap[Original(family)].cfg
               /\ Len(heap[heap[Original(family)].ch].buf)
                    <= heap[Original(family)].cfg.BufferSize)
    /\ [][(trace' # trace /\ Last(trace').op = "Handle") =>
            LET e == Last(trace')
                queue == heap[Original(ExportHandlers(heap))].ch
            IN \A j \in DOMAIN e.path :
                 Exports(heap, e.path[j], e.record) =>
                    heap'[queue].buf =
                       IF Len(heap[queue].buf) < heap[queue].cap
                       THEN Append(heap[queue].buf, e.record)
                       ELSE heap[queue].buf]_vars

\* A logger derived from the first, a channel of one record: the record handled
\* through the derived logger was received from the original's channel, after
\* the record handled through the first logger had found the channel full.
C25_Witness ==
    LET family == ExportHandlers(heap)
    IN /\ Cardinality(family) = 2
       /\ Len(loggers) = 2
       /\ Len(Handled) = 2
       /\ Handled[1].h = loggers[2]
       /\ Handled[2].h = loggers[1]
       /\ Handled[1].record.Level = "ERROR"
       /\ Handled[2].record.Level = "ERROR"
       /\ Handled[1].seen # <<>>
       /\ Handled[1].seen[1].h # Original(family)
       /\ Handled[2].seen # <<>>
       /\ Handled[2].seen[1].len = 1
       /\ heap[heap[Original(family)].ch].cap = 1
       /\ Received(heap[Original(family)].ch) = <<Handled[1].record>>
       /\ heap[heap[Original(family)].ch].buf = <<>>

\* The handlers New registers: the default when it is given none.
Registered == IF handlers = <<>> THEN DefaultHandlers ELSE handlers

\* The handler at address a is the one New's argument `handler` registered.
IsHandler(a, handler) ==
    CASE handler.kind = "pointer" -> a = handler.addr
      [] handler.kind = "TextHandler" ->
           heap[a].kind = "TextHandler" /\ heap[a].Level = handler.Level
      [] handler.kind = "customHandler" ->
           heap[a].kind = "customHandler" /\ heap[a].name = handler.name

\* A Handle call went through the handlers of hs, the last one first.
LastToFirst(path, hs) ==
    /\ Len(path) = Len(hs)
    /\ \A j \in DOMAIN path : IsHandler(path[j], hs[Len(hs) + 1 - j])

\* The handlers from the last text handler on: a text handler's Register drops
\* the handler it is given, and with it every handler registered before.
FromLastText(hs) ==
    LET texts == {j \in DOMAIN hs : hs[j].kind = "TextHandler"}
        last == IF texts = {} THEN 1 ELSE CHOOSE j \in texts : \A k \in texts : k <= j
    IN SubSeq(hs, last, Len(hs))

\* The handlers of the "chain handlers" test.
ChainHandlersTest ==
    <<NewTextHandler("DEBUG"), NewCustomHandler("custom 1"),
      NewCustomHandler("custom 2"), NewCustomHandler("custom 3")>>

RECURSIVE TextOf(_, _)
TextOf(hp, h) ==
    IF h = NilHandler THEN NilHandler
    ELSE IF hp[h].kind = "TextHandler" THEN h
    ELSE TextOf(hp, hp[h].next)
BelowThreshold(h, level) ==
    /\ TextOf(heap, h) # NilHandler
    /\ slogLevel(level) < slogLevel(heap[TextOf(heap, h)].Level)

\* C27, as claimed: at a level below the chain's threshold neither Enabled nor
\* Handle, however it is invoked, changes anything: the buckets, the drop
\* counters, the export channel, the APIClient's entries and the written lines
\* are as before.
C27_BelowThresholdNoSideEffects ==
    /\ [](\A i \in DOMAIN loggers, level \in Levels :
            BelowThreshold(loggers[i], level) =>
               Enabled(heap, loggers[i], level) = [ok |-> FALSE, heap |-> heap])
    /\ [][\A i \in DOMAIN loggers, level \in LogLevels, msg \in Messages :
            (/\ BelowThreshold(loggers[i], level)
             /\ doLog(i, level, msg) \/ HandleDirect(i, level, msg))
            => heap' = heap]_vars

\* C27, amended: at a level below the chain's threshold Enabled returns false
\* and changes nothing, and Logger.doLog, which asks Enabled first, makes no
\* record, does not invoke Handle and changes nothing. (Handle itself does not
\* look at the threshold: invoked directly, it exports and writes the record.)
C27_BelowThresholdEnabledAndDoLogNoSideEffects ==
    /\ [](\A i \in DOMAIN loggers, level \in Levels :
            BelowThreshold(loggers[i], level) =>
               Enabled(heap, loggers[i], level) = [ok |-> FALSE, heap |-> heap])
    /\ [][\A i \in DOMAIN loggers, level \in LogLevels, msg \in Messages :
            (/\ BelowThreshold(loggers[i], level)
             /\ doLog(i, level, msg))
            => /\ heap' = heap
               /\ Handled' = Handled
               /\ Last(trace') = RefusedCall(loggers[i], level)]_vars

\* The example's chain (rate limiter, ExportHandler, text handler at INFO):
\* doLog at DEBUG was refused; every bucket is full, no drop is counted, the
\* channel is empty and nothing was written.
C27_Witness ==
    /\ trace # <<>>
    /\ Last(trace) = RefusedCall(loggers[1], "DEBUG")
    /\ heap[loggers[1]].kind = "RateLimitHandler"
    /\ heap[heap[loggers[1]].next].kind = "ExportHandler"
    /\ \A l \in Levels :
         /\ heap[heap[loggers[1]].rt].tokens[l] = NewLimiter(heap[heap[loggers[1]].rt].burst)
         /\ heap[heap[loggers[1]].droppedLogsCounters].count[l] = 0
    /\ \A ch \in Channels : heap[ch].buf = <<>>
    /\ heap[Stdout].lines = <<>>

\* The fields ingestLogs gives the entries of the ApiExportHandler at h.
FieldsOf(h) == {prefix(heap[h].groups) \o heap[h].attrs[i].Key : i \in DOMAIN heap[h].attrs}

\* The ApiExportHandlers a Handle call went through.
ApiExportersOn(path) ==
    {path[j] : j \in {k \in DOMAIN path : heap[path[k]].kind = "ApiExportHandler"}}

\* C28: WithAttrs and WithGroup return a handler at a new address and leave
\* every object there was as it was: the attrs, groups, cfg and next of the
\* handler they were called on, and of every other handler. So an entry made
\* through a handler has that handler's attributes under that handler's groups,
\* whatever was derived from it since; the entries and the lines made through
\* the Logger New returned, from which the others derive, have no attributes.
C28_DerivingLeavesTheOriginalUnchanged ==
    /\ [][loggers' # loggers =>
            /\ loggers' = Append(loggers, Last(loggers'))
            /\ Last(loggers') > Len(heap)
            /\ Len(heap') > Len(heap)
            /\ SubSeq(heap', 1, Len(heap)) = heap]_vars
    /\ [](\A k \in DOMAIN heap[ApiClient].entries :
            LET entry == heap[ApiClient].entries[k]
                call == Handled[entry.Time]
            IN /\ \A h \in ApiExportersOn(call.path) : DOMAIN entry.Fields = FieldsOf(h)
               /\ call.h = loggers[1] => DOMAIN entry.Fields = {})
    /\ [](\A k \in DOMAIN Handled :
            (/\ Handled[k].h = loggers[1]
             /\ heap[Last(Handled[k].path)].kind = "TextHandler")
            => heap[Stdout].lines[k].attrs = <<>>)

\* A logger with attribute k was derived from the first logger; then a record
\* went through the derived logger, and one through the first logger: the first
\* entry has the field k, the second has none.
C28_Witness ==
    /\ Len(loggers) = 2
    /\ heap[loggers[1]].kind = "ApiExportHandler"
    /\ heap[loggers[1]].attrs = <<>>
    /\ heap[loggers[1]].groups = <<>>
    /\ heap[loggers[2]].attrs = <<String("k", "v")>>
    /\ Len(Handled) = 2
    /\ Handled[1].h = loggers[2]
    /\ Handled[2].h = loggers[1]
    /\ Len(heap[ApiClient].entries) = 2
    /\ DOMAIN heap[ApiClient].entries[1].Fields = {"k"}
    /\ DOMAIN heap[ApiClient].entries[2].Fields = {}
    /\ heap[Stdout].lines[1].attrs = <<"k">>
    /\ heap[Stdout].lines[2].attrs = <<>>

\* ---- the rate limiter without a next
\* The RateLimitHandlers that wrap nothing, and whether the calls made on h end
\* in one of them (h is one, or a handler that passes the call on is in front of
\* one).
Unwrapped(hp) == {a \in RateLimitHandlers(hp) : hp[a].next = NilHandler}
RECURSIVE EndsUnwrapped(_, _)
EndsUnwrapped(hp, h) ==
    CASE hp[h].kind = "RateLimitHandler" -> hp[h].next = NilHandler
      [] hp[h].kind \in {"customHandler", "ExportHandler", "ApiExportHandler"} ->
           hp[h].next # NilHandler /\ EndsUnwrapped(hp, hp[h].next)
      [] OTHER -> FALSE

\* C38: a RateLimitHandler that has no next answers Enabled with true at every
\* level, named or not, and leaves its buckets and counters as they are; its
\* Handle returns without an effect. So its buckets stay full and its counters
\* at zero, and no call made on a logger that ends in it was refused.
C38_UnwrappedLimiterLetsEverythingThrough ==
    /\ \A a \in Unwrapped(heap) :
          /\ \A level \in Levels \cup ProbeLevels :
                Enabled(heap, a, level) = [ok |-> TRUE, heap |-> heap]
          /\ \A level \in Levels :
                /\ Handle([heap |-> heap, path |-> <<>>, seen |-> <<>>], a,
                          NewRecord(level, "msg"))
                     = [heap |-> heap, path |-> <<a>>, seen |-> <<>>]
                /\ heap[heap[a].rt].tokens[level] = NewLimiter(heap[heap[a].rt].burst)
                /\ heap[heap[a].droppedLogsCounters].count[level] = 0
    /\ \A k \in DOMAIN trace :
          (trace[k].op \in {"Handle", "refused", "IsEnabled"}
             /\ EndsUnwrapped(heap, trace[k].h)) =>
              /\ trace[k].op # "refused"
              /\ trace[k].op = "IsEnabled" => trace[k].ret = "true"
              /\ trace[k].op = "Handle" => Last(trace[k].path) \in Unwrapped(heap)

\* C38 witness: New(rateLimitHandler) with a burst of one; two records at INFO
\* were logged one after the other, more than the bucket holds: both went to
\* Handle, the INFO bucket is full and nothing was counted.
C38_Witness ==
    /\ Len(trace) = 2
    /\ \A k \in 1..2 :
          /\ trace[k].op = "Handle"
          /\ trace[k].h = loggers[1]
          /\ trace[k].record.Level = "INFO"
          /\ trace[k].path = <<loggers[1]>>
    /\ loggers[1] \in Unwrapped(heap)
    /\ heap[heap[loggers[1]].rt].burst = 1
    /\ heap[heap[loggers[1]].rt].tokens["INFO"] = NewLimiter(1)
    /\ heap[heap[loggers[1]].droppedLogsCounters].count["INFO"] = 0

\* C39 (as claimed): every Logger.IsEnabled call returned true or false, also at
\* a level between info and warn that the handlers after the RateLimitHandler
\* accept.
C39_EnabledIsTotal ==
    \A k \in DOMAIN trace :
        trace[k].op = "IsEnabled" => trace[k].ret \in {"true", "false"}

\* ---- the exporting handler's fields
\* Names joined with dots: the key the claims give an attribute under groups.
RECURSIVE Dotted(_)
Dotted(names) ==
    IF Len(names) = 1 THEN names[1] ELSE names[1] \o "." \o Dotted(Tail(names))

\* The handler the k-th entry of the APIClient was made by, the attributes that
\* went into it (the handler's, then the record's) and those with a String value.
EntryHandler(k) == heap[Handled[heap[ApiClient].entries[k].Time].h]
EntryAttrs(k) ==
    EntryHandler(k).attrs \o Handled[heap[ApiClient].entries[k].Time].record.Attrs
PlainAttrs(k) == SelectSeq(EntryAttrs(k), LAMBDA a : a.Value.Kind = "String")

\* C34: an entry made by a handler scoped under groups g1, ..., gn has, for each
\* attribute k = v that went into it, the field g1. ... .gn.k, whose value is that
\* of an attribute with that key; under g1 the attribute k2 = v2 is the field
\* "g1.k2" = "v2", and under g1 then g2 it is "g1.g2.k2" = "v2".
C34_GroupsPrefixTheKey ==
    \A k \in DOMAIN heap[ApiClient].entries :
        LET entry == heap[ApiClient].entries[k]
            groups == EntryHandler(k).groups
            plain == PlainAttrs(k)
        IN /\ \A j \in DOMAIN plain :
                LET key == Dotted(Append(groups, plain[j].Key))
                IN /\ key \in DOMAIN entry.Fields
                   /\ entry.Fields[key] \in
                        {plain[i].Value.s : i \in {x \in DOMAIN plain : plain[x].Key = plain[j].Key}}
           /\ (\E j \in DOMAIN plain : plain[j] = String("k2", "v2")) =>
                /\ groups = <<"g1">> => entry.Fields["g1.k2"] = "v2"
                /\ groups = <<"g1", "g2">> => entry.Fields["g1.g2.k2"] = "v2"
                /\ groups = <<>> => entry.Fields["k2"] = "v2"

\* C34 witness: the handler scoped under g1 was handed a record with k2 = v2,
\* and the handler under g1 then g2 too: the entries have the one field
\* "g1.k2" = "v2" and the one field "g1.g2.k2" = "v2".
C34_Witness ==
    /\ Len(loggers) = 3
    /\ heap[loggers[2]].groups = <<"g1">>
    /\ heap[loggers[3]].groups = <<"g1", "g2">>
    /\ heap[loggers[3]].attrs = <<>>
    /\ Len(Handled) = 2
    /\ Handled[1].h = loggers[2]
    /\ Handled[2].h = loggers[3]
    /\ heap[ApiClient].entries[1].Fields = [x \in {"g1.k2"} |-> "v2"]
    /\ heap[ApiClient].entries[2].Fields = [x \in {"g1.g2.k2"} |-> "v2"]

\* The keys the claims give an attribute under the names `names`: for a Group
\* value, those of its attributes under the names followed by its key.
RECURSIVE FlatKeys(_, _)
FlatKeys(attr, names) ==
    IF attr.Value.Kind = "String" THEN {Dotted(Append(names, attr.Key))}
    ELSE UNION {FlatKeys(attr.Value.attrs[i], Append(names, attr.Key)) :
                  i \in DOMAIN attr.Value.attrs}

\* C35 (as claimed): the fields of an entry are, for each attribute that went
\* into it, its key under the handler's groups and, for an attribute inside
\* Group values, under the keys of the enclosing Group values too, every name
\* once: k inside "inner" under g1 is "g1.inner.k", whatever the depth.
C35_GroupValuesFlattenOncePerName ==
    \A k \in DOMAIN heap[ApiClient].entries :
        DOMAIN heap[ApiClient].entries[k].Fields =
            UNION {FlatKeys(EntryAttrs(k)[j], EntryHandler(k).groups) :
                     j \in DOMAIN EntryAttrs(k)}

\* The attributes of a record that have a String value.
PlainOf(attrs) == SelectSeq(attrs, LAMBDA a : a.Value.Kind = "String")

\* C40: the fields of a handler's own attributes are prefixed with all the
\* groups the handler has when the entry is made, whether an attribute was bound
\* before or after a group was opened: WithAttrs(a).WithGroup(g) and
\* WithGroup(g).WithAttrs(a) on the handler derived last give handlers that
\* make the same fields of any record, with a under "g.a" (looked at while no
\* record has been handed over: every handler is derived last in such a state,
\* and handing records over changes no handler); and where an attribute of the record has the key
\* of one of the handler's, the field has the record's value.
C40_PrefixIsTheHandlersGroupsRecordWins ==
    /\ trace = <<>> => \A a \in BoundAttrs, g \in ScopeNames :
          LET bound == WithAttrs(heap, Last(loggers), a)
              boundThenGroup == WithGroup(bound.heap, bound.addr, g)
              group == WithGroup(heap, Last(loggers), g)
              groupThenBound == WithAttrs(group.heap, group.addr, a)
              first == boundThenGroup.heap[boundThenGroup.addr]
              second == groupThenBound.heap[groupThenBound.addr]
              key == Dotted(heap[Last(loggers)].groups \o <<g, a.Key>>)
          IN \A attrs \in RecordAttrs :
                LET record == [NewRecord("INFO", "msg") EXCEPT !.Attrs = attrs]
                IN /\ fieldsM(first, record) = fieldsM(second, record)
                   /\ a.Value.Kind = "String" => key \in DOMAIN fieldsM(first, record)
    /\ \A k \in DOMAIN heap[ApiClient].entries :
          LET entry == heap[ApiClient].entries[k]
              groups == EntryHandler(k).groups
              bound == PlainOf(EntryHandler(k).attrs)
              own == PlainOf(Handled[entry.Time].record.Attrs)
          IN /\ \A j \in DOMAIN bound :
                  Dotted(Append(groups, bound[j].Key)) \in DOMAIN entry.Fields
             /\ \A j \in DOMAIN own :
                  entry.Fields[Dotted(Append(groups, own[j].Key))] = own[j].Value.s

\* C40 witness: a was bound first and g1 opened after it; the handler was handed
\* a record without attributes and a record with an a of its own: the first
\* entry has "g1.a" with the handler's value, the second with the record's.
C40_Witness ==
    /\ Len(loggers) = 3
    /\ heap[loggers[2]].attrs = <<String("a", "bound")>>
    /\ heap[loggers[2]].groups = <<>>
    /\ heap[loggers[3]].attrs = <<String("a", "bound")>>
    /\ heap[loggers[3]].groups = <<"g1">>
    /\ Len(Handled) = 2
    /\ Handled[1].h = loggers[3]
    /\ Handled[2].h = loggers[3]
    /\ heap[ApiClient].entries[1].Fields = [x \in {"g1.a"} |-> "bound"]
    /\ heap[ApiClient].entries[2].Fields = [x \in {"g1.a"} |-> "own"]

====
